---- MODULE Spec2Model ----
(***************************************************************************)
(* Verification model of tauri-plugin-sqlite and its crates:               *)
(*   - sqlx-sqlite-conn-mgr : writer pool (size 1) and attached-database   *)
(*     acquisition (database.rs, attached.rs, write_guard.rs)              *)
(*   - sqlx-sqlite-observer : observation broker and hook lifecycle        *)
(*     (broker.rs, hooks.rs, connection.rs, observer.rs)                   *)
(*   - plugin               : interruptible-transaction registry and       *)
(*     commands (src/transactions.rs, src/commands.rs)                     *)
(*                                                                         *)
(* Each subsystem has its own specification over its own variables; the    *)
(* variables of the other subsystems are left unchanged by it.             *)
(*                                                                         *)
(* Strings that the code compares (database paths, schema names) are       *)
(* sequences of byte values, compared as Rust compares String.             *)
(***************************************************************************)
EXTENDS Integers, Sequences, FiniteSets, TLC

(***************************************************************************)
(* Generic helpers                                                         *)
(***************************************************************************)
Range(s) == {s[i] : i \in 1..Len(s)}

SeqsUpTo(S, n) == UNION {[1..k -> S] : k \in 0..n}

RECURSIVE StrCmp(_, _)
\* Rust's Ord for String: lexicographic byte order; -1, 0 or 1.
StrCmp(a, b) ==
   IF a = <<>> /\ b = <<>> THEN 0
   ELSE IF a = <<>> THEN -1
   ELSE IF b = <<>> THEN 1
   ELSE IF Head(a) < Head(b) THEN -1
   ELSE IF Head(a) > Head(b) THEN 1
   ELSE StrCmp(Tail(a), Tail(b))

(***************************************************************************)
(* PART 1 - connection manager: writer pool and attached acquisition       *)
(***************************************************************************)

\* The databases of the model and their paths: "/b", "/ab", "/a".
\* The order of the handles (1, 2, 3) is the reverse of the path order.
DbPath == << <<47, 98>>, <<47, 97, 98>>, <<47, 97>> >>

DBs == 1..Len(DbPath)

\* SqliteDatabase::path_str: the path as a String.
path_str(d) == DbPath[d]

\* max_connections of the write pool.
MaxWriteConns == 1

\* Bound: the longest spec list of the task whose call is explored in full.
MaxSpecs == 2

Tasks == {"t1", "t2"}

\* schema names: "s1", "s2", "s3" are identifiers, "1x" is not.
SchemaOf == << <<115, 49>>, <<115, 50>>, <<115, 51>> >>

BadSchema == <<49, 120>>

Spec_(d, m) == [database |-> d, schema_name |-> SchemaOf[d], mode |-> m]

\* AttachedSpec values the callers pass.
RWSpecs == {Spec_(d, "ReadWrite") : d \in DBs}

ROSpecs == {Spec_(d, "ReadOnly") : d \in DBs}

BadSpecs == {[database |-> 2, schema_name |-> BadSchema, mode |-> "ReadWrite"]}

AllSpecs == RWSpecs \cup ROSpecs \cup BadSpecs

VARIABLES
   call,             \* call[t]: the arguments (main_db, specs) of task t's call
   pc,               \* pc[t]: where task t is in acquire_writer_with_attached
   db_entries,       \* db_entries[t]: the databases needing a writer, as sorted
   all_writers,      \* all_writers[t]: the WriteGuards t holds, in acquisition order
   schema_names,     \* schema_names[t]: schemas the guard of t recorded
   result,           \* result[t]: what the call returned
   write_conn,       \* write_conn[d]: connections checked out of d's write pool
   wal_initialized,  \* wal_initialized[d]
   closed,           \* closed[d]
   attached_on       \* attached_on[d]: schemas attached on d's writer connection

poolVars == <<call, pc, db_entries, all_writers, schema_names, result,
              write_conn, wal_initialized, closed, attached_on>>

\* is_valid_schema_name
IsAsciiDigit(c) == c \in 48..57

IsAsciiAlphanumeric(c) == c \in (48..57) \cup (65..90) \cup (97..122)

\* A check that only refuses the empty name.
is_valid_schema_name_nonempty(name) == name # <<>>

is_valid_schema_name(name) ==
   /\ name # <<>>
   /\ \A i \in 1..Len(name) : IsAsciiAlphanumeric(name[i]) \/ name[i] = 95
   /\ ~IsAsciiDigit(name[1])

\* db_entries as collected: main first, then every ReadWrite spec in caller order.
RECURSIVE RWDatabases(_)
RWDatabases(specs) ==
   IF specs = <<>> THEN <<>>
   ELSE (IF Head(specs).mode = "ReadWrite" THEN <<Head(specs).database>> ELSE <<>>)
        \o RWDatabases(Tail(specs))

CollectEntries(main, specs) == <<main>> \o RWDatabases(specs)

\* the HashSet check: some path occurs twice in the entries.
HasDuplicatePath(entries) ==
   \E i, j \in 1..Len(entries) : i < j /\ path_str(entries[i]) = path_str(entries[j])

RECURSIVE InsertByPath(_, _)
\* stable insertion of database e into a list sorted by path.
InsertByPath(e, sorted) ==
   IF sorted = <<>> THEN <<e>>
   ELSE IF StrCmp(path_str(e), path_str(Head(sorted))) < 0 THEN <<e>> \o sorted
   ELSE <<Head(sorted)>> \o InsertByPath(e, Tail(sorted))

RECURSIVE SortByPathFrom(_, _)
SortByPathFrom(entries, acc) ==
   IF entries = <<>> THEN acc
   ELSE SortByPathFrom(Tail(entries), InsertByPath(Head(entries), acc))

\* A sort that leaves the entries as collected (main first).
SortEntriesUnsorted(entries) == entries

\* db_entries.sort_by(|a, b| a.0.cmp(&b.0))
SortEntries(entries) == SortByPathFrom(entries, <<>>)

\* The pool hands out a connection whatever is checked out already.
PoolHasIdleUnbounded(d) == TRUE

\* write_conn.acquire() returns only when fewer than max_connections are out.
PoolHasIdle(d) == write_conn[d] < MaxWriteConns

RECURSIVE ReleaseAll(_, _)
\* dropping WriteGuards: each returns its connection to its pool.
ReleaseAll(guards, wc) ==
   IF guards = <<>> THEN wc
   ELSE ReleaseAll(Tail(guards), [wc EXCEPT ![Head(guards)] = @ - 1])

\* The ATTACH loop on the main writer, specs in the order the caller listed them:
\* the number of ATTACH statements that succeed before one is refused because
\* its schema name is already in use on the connection.
RECURSIVE AttachPrefix(_, _)
AttachPrefix(specs, inUse) ==
   IF specs = <<>> THEN <<>>
   ELSE IF Head(specs).schema_name \in inUse THEN <<>>
   ELSE <<Head(specs).schema_name>>
        \o AttachPrefix(Tail(specs), inUse \cup {Head(specs).schema_name})

\* acquire_writer_with_attached up to the sort: validation, collection, duplicates.
Validate(t) ==
   /\ pc[t] = "start"
   /\ LET specs == call[t].specs
          entries == CollectEntries(call[t].main, specs)
      IN IF \E i \in 1..Len(specs) : ~is_valid_schema_name(specs[i].schema_name)
         THEN /\ result' = [result EXCEPT ![t] = "InvalidSchemaName"]
              /\ pc' = [pc EXCEPT ![t] = "done"]
              /\ UNCHANGED db_entries
         ELSE IF HasDuplicatePath(entries)
         THEN /\ result' = [result EXCEPT ![t] = "DuplicateAttachedDatabase"]
              /\ pc' = [pc EXCEPT ![t] = "done"]
              /\ UNCHANGED db_entries
         ELSE /\ db_entries' = [db_entries EXCEPT ![t] = SortEntries(entries)]
              /\ pc' = [pc EXCEPT ![t] = "acquiring"]
              /\ UNCHANGED result
   /\ UNCHANGED <<call, all_writers, schema_names, write_conn, wal_initialized,
                  closed, attached_on>>

\* One turn of the loop `all_writers.push(db.acquire_writer().await?)`.
AcquireNext(t) ==
   /\ pc[t] = "acquiring"
   /\ LET d == db_entries[t][Len(all_writers[t]) + 1]
      IN IF closed[d]
         THEN \* acquire_writer returns DatabaseClosed; `?` drops the guards taken
              /\ result' = [result EXCEPT ![t] = "DatabaseClosed"]
              /\ pc' = [pc EXCEPT ![t] = "done"]
              /\ write_conn' = ReleaseAll(all_writers[t], write_conn)
              /\ all_writers' = [all_writers EXCEPT ![t] = <<>>]
              /\ UNCHANGED wal_initialized
         ELSE /\ PoolHasIdle(d)
              /\ write_conn' = [write_conn EXCEPT ![d] = @ + 1]
              /\ wal_initialized' = [wal_initialized EXCEPT ![d] = TRUE]
              /\ all_writers' = [all_writers EXCEPT ![t] = Append(@, d)]
              /\ pc' = [pc EXCEPT ![t] =
                          IF Len(all_writers[t]) + 1 = Len(db_entries[t])
                          THEN "attaching" ELSE "acquiring"]
              /\ UNCHANGED result
   /\ UNCHANGED <<call, db_entries, schema_names, closed, attached_on>>

\* The ATTACH loop and the construction of the guard.
AttachAll(t) ==
   /\ pc[t] = "attaching"
   /\ LET main == call[t].main
          specs == call[t].specs
          done == AttachPrefix(specs, attached_on[main])
      IN /\ attached_on' = [attached_on EXCEPT ![main] = @ \cup Range(done)]
         /\ IF Len(done) = Len(specs)
            THEN /\ schema_names' = [schema_names EXCEPT ![t] = done]
                 /\ result' = [result EXCEPT ![t] = "Ok"]
                 /\ pc' = [pc EXCEPT ![t] = "holding"]
                 /\ UNCHANGED <<write_conn, all_writers>>
            ELSE \* an ATTACH failed: `?` returns, every guard is dropped
                 /\ result' = [result EXCEPT ![t] = "Sqlx"]
                 /\ pc' = [pc EXCEPT ![t] = "done"]
                 /\ write_conn' = ReleaseAll(all_writers[t], write_conn)
                 /\ all_writers' = [all_writers EXCEPT ![t] = <<>>]
                 /\ UNCHANGED schema_names
   /\ UNCHANGED <<call, db_entries, wal_initialized, closed>>

\* A drop that gives back the main writer and keeps the held writers out.
DropGuardMainOnly(t) ==
   /\ pc[t] = "holding"
   /\ write_conn' = [write_conn EXCEPT ![call[t].main] = @ - 1]
   /\ all_writers' = [all_writers EXCEPT ![t] = <<>>]
   /\ pc' = [pc EXCEPT ![t] = "done"]
   /\ UNCHANGED <<call, db_entries, schema_names, result, wal_initialized, closed,
                  attached_on>>

\* The AttachedWriteGuard is dropped: writer and held_writers go back to their pools.
DropGuard(t) ==
   /\ pc[t] = "holding"
   /\ write_conn' = ReleaseAll(all_writers[t], write_conn)
   /\ all_writers' = [all_writers EXCEPT ![t] = <<>>]
   /\ pc' = [pc EXCEPT ![t] = "done"]
   /\ UNCHANGED <<call, db_entries, schema_names, result, wal_initialized, closed,
                  attached_on>>

\* AttachedWriteGuard::detach_all: DETACH every recorded schema, then drop.
DetachAll(t) ==
   /\ pc[t] = "holding"
   /\ attached_on' = [attached_on EXCEPT ![call[t].main] = @ \ Range(schema_names[t])]
   /\ write_conn' = ReleaseAll(all_writers[t], write_conn)
   /\ all_writers' = [all_writers EXCEPT ![t] = <<>>]
   /\ pc' = [pc EXCEPT ![t] = "done"]
   /\ UNCHANGED <<call, db_entries, schema_names, result, wal_initialized, closed>>

TaskStep(t) == Validate(t) \/ AcquireNext(t) \/ AttachAll(t) \/ DropGuard(t) \/ DetachAll(t)

\* Calls: t1's call is any call with up to MaxSpecs specs; t2's is any call
\* with at most one ReadWrite spec.
FullCalls == [main : DBs, specs : SeqsUpTo(AllSpecs, MaxSpecs)]

SmallCalls == [main : DBs, specs : {<<>>} \cup {<<s>> : s \in RWSpecs}]

\* Calls whose specs are all ReadWrite with valid names (the lock-taking calls).
LockCalls == [main : DBs, specs : SeqsUpTo(RWSpecs, MaxSpecs)]

PoolStart ==
   /\ pc = [t \in Tasks |-> "start"]
   /\ db_entries = [t \in Tasks |-> <<>>]
   /\ all_writers = [t \in Tasks |-> <<>>]
   /\ schema_names = [t \in Tasks |-> <<>>]
   /\ result = [t \in Tasks |-> "none"]
   /\ write_conn = [d \in DBs |-> 0]
   /\ wal_initialized = [d \in DBs |-> FALSE]
   /\ attached_on = [d \in DBs |-> {}]

\* Database 3 may have been closed before the calls are made.
InitPool ==
   /\ \E c1 \in FullCalls, c2 \in SmallCalls : call = [t \in Tasks |-> IF t = "t1" THEN c1 ELSE c2]
   /\ closed \in {[d \in DBs |-> FALSE], [d \in DBs |-> d = 3]}
   /\ PoolStart

InitPoolFair ==
   /\ \E c1 \in LockCalls, c2 \in SmallCalls : call = [t \in Tasks |-> IF t = "t1" THEN c1 ELSE c2]
   /\ closed = [d \in DBs |-> FALSE]
   /\ PoolStart

NextPool == \E t \in Tasks : TaskStep(t)

(***************************************************************************)
(* PART 2 - plugin: interruptible transactions, their registry, commands   *)
(***************************************************************************)

\* The databases the plugin has loaded (keys of DbInstances).
TxDBs == {"a.db", "b.db"}

\* Command invocations that can be in flight at once.
Ops == {"o1", "o2"}

\* Bound: how many transaction ids (Uuid::new_v4) are ever generated.
MaxTx == 2

TxIds == 1..MaxTx

\* "continue" stands for transaction_continue(Continue) and for transaction_read:
\* both remove the entry, execute on the transaction, and reinsert it.
TxKinds == {"begin", "continue", "commit", "rollback"}

VARIABLES
   registry,          \* ActiveInterruptibleTransactions: entries (db_path, transaction_id)
   txs,               \* txs[id]: key, database and SQLite state of transaction id
   txWriter,          \* txWriter[d]: the transaction holding d's writer, or 0
   nextId,            \* the next fresh transaction id
   ops,               \* ops[o]: the command invocation in slot o
   cleanupDone,       \* cleanup_all_transactions has run
   finalized,         \* tokens whose commit or rollback has removed the entry
   trackedAtCleanup   \* transactions tracked when the cleanup ran

txVars == <<registry, txs, txWriter, nextId, ops, cleanupDone, finalized, trackedAtCleanup>>

IdleOp == [kind |-> "none", pc |-> "idle", key |-> "a.db", db |-> "a.db", tok |-> 0,
           tx |-> 0, res |-> "none", whileActive |-> FALSE, stale |-> FALSE]

\* An interruptible transaction on db_path `key` is active: begun and not yet
\* committed, rolled back or dropped.
ActiveOn(key) == \E id \in TxIds : txs[id].key = key /\ txs[id].state = "active"

EntriesFor(reg, key) == {e \in reg : e.db_path = key}

\* The entry is always vacant.
OccupiedNever(reg, key) == FALSE

\* txs.entry(db_path) is Entry::Occupied.
Occupied(reg, key) == EntriesFor(reg, key) # {}

\* Every token is accepted.
TokenMatchesAny(e, token_id) == TRUE

\* ActiveInterruptibleTransaction::validate_token
TokenMatches(e, token_id) == e.transaction_id = token_id

\* The entry is looked up but left in the map.
RemoveEntryKeep(reg, key) == reg

\* txs.remove(db_path)
RemoveEntry(reg, key) == reg \ EntriesFor(reg, key)

\* A mismatching token takes the entry out of the map all the same.
RejectedEntryDropped(reg, key) == reg \ EntriesFor(reg, key)

\* remove returns InvalidTransactionToken from validate_token's `?`, before
\* txs.remove(db_path): the map is what it was.
RejectedEntry(reg, key) == reg

\* A transaction that has ended; its key and database no longer matter.
Ended(st) == [key |-> "a.db", db |-> "a.db", state |-> st]

\* A command that has returned r.  whileActive: it was the begin command,
\* invoked while a transaction on its db_path was active; stale: it carried a token whose
\* commit or rollback had already removed the entry.
Returned(r, wa, st) == [kind |-> "none", pc |-> "done", key |-> "a.db", db |-> "a.db",
                        tok |-> 0, tx |-> 0, res |-> r, whileActive |-> wa, stale |-> st]

\* A transaction object is dropped with its writer still present: the writer
\* goes back to the pool and the coordinator counts the transaction as rolled
\* back (transactions.rs, impl Drop: "will auto-rollback").  What becomes of
\* its rows on the connection is ItxDrop of PART 4.
DroppedTxs(ts, ids) ==
   [i \in TxIds |-> IF i \in ids /\ ts[i].state = "active" THEN Ended("rolledback") ELSE ts[i]]

ReleasedWriters(tw, ids) == [d \in TxDBs |-> IF tw[d] \in ids THEN 0 ELSE tw[d]]

\* begin is invoked with (db, key) and generates its transaction id.  The
\* plugin command uses the database's own key (key = db); the registry used
\* directly - as test_insert_duplicate_rejected does - takes any key.
TxBegin(o) ==
   /\ ops[o].pc \in {"idle", "done"}
   /\ nextId <= MaxTx
   /\ \E key \in TxDBs, db \in TxDBs :
         ops' = [ops EXCEPT ![o] = [kind |-> "begin", pc |-> "acquire", key |-> key,
                    db |-> db, tok |-> nextId, tx |-> 0, res |-> "none",
                    whileActive |-> key = db /\ ActiveOn(key), stale |-> FALSE]]
   /\ nextId' = nextId + 1
   /\ UNCHANGED <<registry, txs, txWriter, cleanupDone, finalized, trackedAtCleanup>>

\* begin: wrapper.acquire_writer().await, then BEGIN IMMEDIATE and the initial
\* statements; on an error `?` returns and the writer (or the transaction
\* object holding it) is dropped.
TxAcquire(o) ==
   /\ ops[o].pc = "acquire"
   /\ txWriter[ops[o].db] = 0
   /\ LET id == ops[o].tok
          begun == [txs EXCEPT ![id] = [key |-> ops[o].key, db |-> ops[o].db, state |-> "active"]]
      IN \E ok \in BOOLEAN :
            IF ok
            THEN /\ txs' = begun
                 /\ txWriter' = [txWriter EXCEPT ![ops[o].db] = id]
                 /\ ops' = [ops EXCEPT ![o].pc = "insert", ![o].tx = id]
            ELSE /\ txs' = DroppedTxs(begun, {id})
                 /\ ops' = [ops EXCEPT ![o] = Returned("Sqlx", ops[o].whileActive, FALSE)]
                 /\ UNCHANGED txWriter
   /\ UNCHANGED <<registry, nextId, cleanupDone, finalized, trackedAtCleanup>>

\* ActiveInterruptibleTransactions::insert of the transaction the command holds.
InsertHeld(o) ==
   LET id == ops[o].tx
       key == ops[o].key
   IN IF Occupied(registry, key)
      THEN /\ txs' = DroppedTxs(txs, {id})
           /\ txWriter' = ReleasedWriters(txWriter, {id})
           /\ ops' = [ops EXCEPT ![o] = Returned("TransactionAlreadyActive",
                                                 ops[o].whileActive, FALSE)]
           /\ UNCHANGED registry
      ELSE /\ registry' = registry \cup {[db_path |-> key, transaction_id |-> id]}
           /\ ops' = [ops EXCEPT ![o] = Returned("Ok", ops[o].whileActive, FALSE)]
           /\ UNCHANGED <<txs, txWriter>>

\* begin: active_txs.insert(db, active_tx)
TxInsert(o) ==
   /\ ops[o].pc = "insert"
   /\ InsertHeld(o)
   /\ UNCHANGED <<nextId, cleanupDone, finalized, trackedAtCleanup>>

\* tx.commit() / tx.rollback() on the removed transaction e: COMMIT or
\* ROLLBACK, detach, drop the writer.  A failed COMMIT drops the writer with
\* the transaction uncommitted.
Finalize(o, kind, e) ==
   \E ok \in BOOLEAN :
      /\ txs' = IF kind = "commit" /\ ok /\ txs[e.transaction_id].state = "active"
                THEN [txs EXCEPT ![e.transaction_id] = Ended("committed")]
                ELSE DroppedTxs(txs, {e.transaction_id})
      /\ txWriter' = ReleasedWriters(txWriter, {e.transaction_id})
      /\ ops' = [ops EXCEPT ![o] = Returned(IF ok THEN "Ok" ELSE "Sqlx", FALSE, FALSE)]

\* continue, read, commit or rollback is invoked with the token (key, tok);
\* tok = 0 is an id that was never issued.
TxInvoke(o) ==
   /\ ops[o].pc \in {"idle", "done"}
   /\ \E key \in TxDBs, tok \in 0..MaxTx :
        /\ tok < nextId
        /\ ops' = [ops EXCEPT ![o] = [kind |-> "none", pc |-> "remove", key |-> key,
                      db |-> key, tok |-> tok, tx |-> 0, res |-> "none",
                      whileActive |-> FALSE, stale |-> FALSE]]
   /\ UNCHANGED <<registry, txs, txWriter, nextId, cleanupDone, finalized, trackedAtCleanup>>

\* The invoked command starts with ActiveInterruptibleTransactions::remove.
\* What the command is (kind) matters only once the entry has been removed:
\* commit and rollback then finalize the transaction, continue and read go on
\* to execute on it.
TxRemove(o) ==
   /\ ops[o].pc = "remove"
   /\ LET key == ops[o].key
          tok == ops[o].tok
          es == EntriesFor(registry, key)
          returns(r) == ops' = [ops EXCEPT ![o] = Returned(r, FALSE, <<key, tok>> \in finalized)]
      IN IF es = {}
         THEN /\ returns("NoActiveTransaction")
              /\ UNCHANGED <<registry, txs, txWriter, finalized>>
         ELSE \E e \in es :
                 IF ~TokenMatches(e, tok)
                 THEN /\ returns("InvalidTransactionToken")
                      /\ registry' = RejectedEntry(registry, key)
                      /\ UNCHANGED <<txs, txWriter, finalized>>
                 ELSE /\ registry' = RemoveEntry(registry, key)
                      /\ \E kind \in TxKinds \ {"begin"} :
                            IF kind = "continue"
                            THEN /\ ops' = [ops EXCEPT ![o].kind = kind, ![o].pc = "exec",
                                                       ![o].tx = e.transaction_id]
                                 /\ UNCHANGED <<txs, txWriter, finalized>>
                            ELSE /\ Finalize(o, kind, e)
                                 /\ finalized' = finalized \cup {<<key, tok>>}
   /\ UNCHANGED <<nextId, cleanupDone, trackedAtCleanup>>

\* The failed command puts the transaction back before it returns the error.
ExecErrorRegistryReinsert(reg, key, id) == reg \cup {[db_path |-> key, transaction_id |-> id]}

\* The Err arm of transaction_continue / transaction_read: tx.rollback()
\* consumes the transaction and nothing is inserted.
ExecErrorRegistry(reg, key, id) == reg

\* continue_with / read on the removed transaction, then reinsert; on an error
\* tx.rollback() runs and the error is returned.
TxExec(o) ==
   /\ ops[o].pc = "exec"
   /\ \E ok \in BOOLEAN :
         IF ok
         THEN InsertHeld(o)
         ELSE /\ txs' = DroppedTxs(txs, {ops[o].tx})
              /\ txWriter' = ReleasedWriters(txWriter, {ops[o].tx})
              /\ ops' = [ops EXCEPT ![o] = Returned("Sqlx", FALSE, FALSE)]
              /\ registry' = ExecErrorRegistry(registry, ops[o].key, ops[o].tx)
   /\ UNCHANGED <<nextId, cleanupDone, finalized, trackedAtCleanup>>

\* cleanup_all_transactions -> ActiveInterruptibleTransactions::abort_all:
\* txs.clear() drops every transaction that is in the map.
TxAbortAll ==
   /\ ~cleanupDone
   /\ LET ids == {e.transaction_id : e \in registry}
      IN /\ registry' = {}
         /\ txs' = DroppedTxs(txs, ids)
         /\ txWriter' = ReleasedWriters(txWriter, ids)
         /\ trackedAtCleanup' = ids \cup {ops[o].tx : o \in {x \in Ops : ops[x].pc = "exec"}}
   /\ cleanupDone' = TRUE
   /\ UNCHANGED <<nextId, ops, finalized>>

TxIdle ==
   /\ registry = {}
   /\ txs = [i \in TxIds |-> Ended("unborn")]
   /\ txWriter = [d \in TxDBs |-> 0]
   /\ nextId = 1
   /\ ops = [o \in Ops |-> IdleOp]
   /\ cleanupDone = FALSE
   /\ finalized = {}
   /\ trackedAtCleanup = {}

(***************************************************************************)
(* PART 3 - sqlx-sqlite-observer: hooks, broker buffer, publication        *)
(***************************************************************************)

\* Tables of the database; config.tables = {"users"} is observed from the start.
ObsTables == {"users", "logs"}

\* Bound: how many transactions are begun on the connection.
MaxTxns == 2

\* Bound: how many row mutations are executed altogether.
MaxOps == 3

Txns == 1..MaxTxns

VARIABLES
   conn,              \* who has the connection: "pool", "observable" (ObservableConnection), "raw"
   hooks_registered,  \* the three hooks are set on the sqlite3 handle
   inTx,              \* the transaction open on the connection, or 0
   nextTxn,           \* the next transaction to begin
   txOutcome,         \* txOutcome[T]: "none", "open", "committed", "rolledback"
   opCount,           \* row mutations executed so far
   txWrote,           \* txWrote[T]: T has executed a row mutation
   txExpected,        \* txExpected[T]: T's preupdate events on observed tables, in firing order
   txHooked,          \* txHooked[T]: the hooks were registered from T's begin up to now
   buffer,            \* ObservationBroker.buffer
   observed_tables,   \* ObservationBroker.observed_tables
   published,         \* every TableChange passed to change_tx.send, in order
   sub_next,          \* how many changes the subscriber has received
   sub_last,          \* seq of the change the subscriber received last, or 0
   sub_in_order       \* every change came after the ones received before it

brokerVars == <<conn, hooks_registered, inTx, nextTxn, txOutcome, opCount, txWrote, txExpected,
                txHooked, buffer, observed_tables, published, sub_next, sub_last,
                sub_in_order>>

\* Bound: schema probes of one table that are counted; the count stops there.
MaxProbes == 3

VARIABLES
   table_info,        \* ObservationBroker.table_info: the tables whose TableInfo is set
   probes             \* probes[t]: how many times query_table_info ran for table t

probeVars == <<table_info, probes>>

ProbeOutcomes == {"found", "missing", "failed"}

\* The tables set_table_info is called for: those whose probe was Ok(Some(info)).
ProbedTables(needed, outcome) == {t \in needed : outcome[t] = "found"}

\* SqliteObserver::ensure_table_info: query_table_info for every observed table
\* without TableInfo; Ok(None) and Err are logged and nothing is stored.
ensure_table_info ==
   LET needed == {t \in observed_tables : t \notin table_info}
   IN \E outcome \in [needed -> ProbeOutcomes] :
         /\ table_info' = table_info \cup ProbedTables(needed, outcome)
         /\ probes' = [t \in ObsTables |->
                          IF t \in needed /\ probes[t] < MaxProbes THEN probes[t] + 1
                                                                    ELSE probes[t]]

\* The subscriber's state.
subVars == <<sub_next, sub_last, sub_in_order>>

\* PreUpdateEvent.  tx and seq identify the row mutation (they stand for the
\* rowid and values the event carries).
PreUpdateEvent(table, tx, seq) == [table |-> table, tx |-> tx, seq |-> seq]

is_table_observed(table) == table \in observed_tables

\* A buffer that takes the newest event first.
on_preupdate_front(buf, event) == <<event>> \o buf

\* ObservationBroker::on_preupdate: buffer.push(event).
on_preupdate(buf, event) == Append(buf, event)

\* TableChange built from the event; `by` is the transaction whose commit hook
\* is publishing it.
event_to_change(event, by) == [table |-> event.table, tx |-> event.tx, seq |-> event.seq, by |-> by]

\* ObservationBroker::on_commit: take the buffer, send every change.
on_commit(by) ==
   /\ published' = published \o [i \in 1..Len(buffer) |-> event_to_change(buffer[i], by)]
   /\ buffer' = <<>>

\* ObservationBroker::on_rollback: clear the buffer.
on_rollback == buffer' = <<>> /\ UNCHANGED published

\* SqliteObserver::acquire: take the connection from the pool and register the
\* hooks.  The schema probe it runs in between writes only the broker's
\* table_info; ObsAcquireProbed is the acquisition with that part of the
\* broker in view.
ObsAcquire ==
   /\ conn = "pool"
   /\ conn' = "observable"
   /\ hooks_registered' = TRUE
   /\ UNCHANGED <<inTx, nextTxn, txOutcome, opCount, txWrote, txExpected, txHooked, buffer,
                  observed_tables, published, subVars>>

\* SqliteObserver::acquire with ensure_table_info.
ObsAcquireProbed == ObsAcquire /\ ensure_table_info

\* BEGIN on the connection.
ObsBegin ==
   /\ conn # "pool"
   /\ inTx = 0
   /\ nextTxn <= MaxTxns
   /\ inTx' = nextTxn
   /\ nextTxn' = nextTxn + 1
   /\ txOutcome' = [txOutcome EXCEPT ![nextTxn] = "open"]
   /\ txHooked' = [txHooked EXCEPT ![nextTxn] = hooks_registered]
   /\ UNCHANGED <<conn, hooks_registered, opCount, txWrote, txExpected, buffer, observed_tables, published, subVars>>

\* An INSERT, UPDATE or DELETE of one row of `table` inside the open
\* transaction; preupdate_callback runs if the hooks are registered and
\* buffers the event if the table is observed.
ObsExec ==
   /\ conn # "pool"
   /\ inTx # 0
   /\ opCount < MaxOps
   /\ \E table \in ObsTables :
        LET event == PreUpdateEvent(table, inTx, opCount + 1)
        IN IF hooks_registered /\ is_table_observed(table)
           THEN /\ buffer' = on_preupdate(buffer, event)
                /\ txExpected' = [txExpected EXCEPT ![inTx] = Append(@, event)]
           ELSE UNCHANGED <<buffer, txExpected>>
   /\ opCount' = opCount + 1
   /\ txWrote' = [txWrote EXCEPT ![inTx] = TRUE]
   /\ UNCHANGED <<conn, hooks_registered, inTx, nextTxn, txOutcome, txHooked, observed_tables,
                  published, subVars>>

\* COMMIT.  SQLite calls the commit hook, if one is set, for a transaction that
\* wrote.
ObsCommit ==
   /\ conn # "pool"
   /\ inTx # 0
   /\ txOutcome' = [txOutcome EXCEPT ![inTx] = "committed"]
   /\ IF hooks_registered /\ txWrote[inTx]
      THEN on_commit(inTx)
      ELSE UNCHANGED <<buffer, published>>
   /\ inTx' = 0
   /\ UNCHANGED <<conn, hooks_registered, nextTxn, opCount, txWrote, txExpected, txHooked, observed_tables, subVars>>

\* ROLLBACK.  SQLite calls the rollback hook, if one is set.
ObsRollback ==
   /\ conn # "pool"
   /\ inTx # 0
   /\ txOutcome' = [txOutcome EXCEPT ![inTx] = "rolledback"]
   /\ IF hooks_registered THEN on_rollback ELSE UNCHANGED <<buffer, published>>
   /\ inTx' = 0
   /\ UNCHANGED <<conn, hooks_registered, nextTxn, opCount, txWrote, txExpected, txHooked, observed_tables, subVars>>

\* A release that leaves the callbacks and their context on the handle.
unregister_hooks_keep(registered) == registered

\* hooks::unregister_hooks: the three callbacks are nulled and the HookContext
\* (with its Arc of the broker) is reclaimed.
unregister_hooks(registered) == FALSE

\* What unregister_hooks means to the open transaction: the broker is not touched.
Unhooked(hooked) == [T \in Txns |-> hooked[T] /\ T # inTx]

\* ObservableConnection::into_inner: unregister the hooks, hand out the
\* PoolConnection.
ObsIntoInner ==
   /\ conn = "observable"
   /\ conn' = "raw"
   /\ hooks_registered' = unregister_hooks(hooks_registered)
   /\ txHooked' = Unhooked(txHooked)
   /\ UNCHANGED <<inTx, nextTxn, txOutcome, opCount, txWrote, txExpected, buffer, observed_tables,
                  published, subVars>>

\* The connection goes back to the pool: impl Drop for ObservableConnection
\* unregisters the hooks first; a PoolConnection from into_inner has none.  A
\* transaction that is still open is either rolled back on the way (no hook is
\* set any more) or stays open on the pooled connection.
ObsDrop ==
   /\ conn # "pool"
   /\ conn' = "pool"
   /\ hooks_registered' = unregister_hooks(hooks_registered)
   /\ txHooked' = Unhooked(txHooked)
   /\ IF inTx = 0
      THEN UNCHANGED <<inTx, txOutcome>>
      ELSE \E rolled \in BOOLEAN :
              IF rolled
              THEN inTx' = 0 /\ txOutcome' = [txOutcome EXCEPT ![inTx] = "rolledback"]
              ELSE UNCHANGED <<inTx, txOutcome>>
   /\ UNCHANGED <<nextTxn, opCount, txWrote, txExpected, buffer, observed_tables, published, subVars>>

\* SqliteObserver::subscribe(tables): the tables join the observed set.
ObsSubscribe ==
   /\ \E tables \in SUBSET ObsTables :
        /\ ~(tables \subseteq observed_tables)
        /\ observed_tables' = observed_tables \cup tables
   /\ UNCHANGED <<conn, hooks_registered, inTx, nextTxn, txOutcome, opCount, txWrote, txExpected,
                  txHooked, buffer, published, subVars>>

\* The subscriber's stream yields the next change of the channel.
StreamNext ==
   /\ sub_next < Len(published)
   /\ sub_next' = sub_next + 1
   /\ sub_last' = published[sub_next + 1].seq
   /\ sub_in_order' = (sub_in_order /\ published[sub_next + 1].seq > sub_last)
   /\ UNCHANGED <<conn, hooks_registered, inTx, nextTxn, txOutcome, opCount, txWrote, txExpected,
                  txHooked, buffer, observed_tables, published>>

ProbeIdle ==
   /\ table_info = {}
   /\ probes = [t \in ObsTables |-> 0]

BrokerIdle ==
   /\ conn = "pool"
   /\ hooks_registered = FALSE
   /\ inTx = 0
   /\ nextTxn = 1
   /\ txOutcome = [T \in Txns |-> "none"]
   /\ opCount = 0
   /\ txWrote = [T \in Txns |-> FALSE]
   /\ txExpected = [T \in Txns |-> <<>>]
   /\ txHooked = [T \in Txns |-> FALSE]
   /\ buffer = <<>>
   /\ observed_tables = {"users"}
   /\ published = <<>>
   /\ sub_next = 0
   /\ sub_last = 0
   /\ sub_in_order = TRUE

(***************************************************************************)
(* PART 4 - one database's writer connection: transactions and the data    *)
(***************************************************************************)

\* Bound: how many rows are inserted altogether.
MaxRows == 3

Rows == 1..MaxRows

\* The two functions that run an atomic batch: execute_transaction_with_writer
\* (builders.rs) and TransactionExecutionBuilder::execute (wrapper.rs).
BatchPaths == {"builders", "wrapper"}

VARIABLES
   wHolder,       \* who has the writer connection: "pool", "itx", "batch"
   wInTxn,        \* the connection has an open transaction (not in autocommit)
   wPending,      \* rows written by the open transaction
   wCommitted,    \* rows in the database file
   nextRow,       \* the next row to insert
   itxWrites,     \* rows written by the live interruptible transaction
   lastRead,      \* the last read through the interruptible transaction
   abandoned,     \* rows of interruptible transactions dropped with their writer
   leaked,        \* abandoned rows that a later user of the connection could see
   batch,         \* the atomic batch that runs or ran last
   failedWrites   \* rows written by batches one of whose statements failed

connVars == <<wHolder, wInTxn, wPending, wCommitted, nextRow, itxWrites, lastRead,
              abandoned, leaked, batch, failedWrites>>

NoRead == [valid |-> FALSE, result |-> {}, writes |-> {}]

NoBatch == [path |-> "builders", pc |-> "idle", writes |-> {}, stmtFailed |-> FALSE,
            rollbackFailed |-> FALSE, res |-> "none", attached |-> FALSE, detach |-> "none"]

\* A batch that has returned.
BatchDone(path, stmtFailed, rollbackFailed, res) ==
   [path |-> path, pc |-> "done", writes |-> {}, stmtFailed |-> stmtFailed,
    rollbackFailed |-> rollbackFailed, res |-> res, attached |-> batch.attached,
    detach |-> "none"]

\* The batch after detach_all / detach_if_attached ran on its writer: DETACH
\* of every attached schema, which succeeds or fails.
Detached(b, ok) == [b EXCEPT !.detach = IF ok THEN "ok" ELSE "failed"]

\* What a statement executed on the writer connection sees: the database file
\* and the open transaction's own writes.
View == wCommitted \cup wPending

\* A read that goes to the read pool sees the database file only.
ReadPoolView == wCommitted

\* ActiveInterruptibleTransaction::read: fetch_all on the transaction's writer.
ReadView == View

\* The database file after a ROLLBACK that keeps the changes.
RollbackKeepsChanges(committed, pending) == committed \cup pending

\* The database file after ROLLBACK.
AfterRollback(committed, pending) == committed

\* The database file after COMMIT.
AfterCommit(committed, pending) == committed \cup pending

\* The error a batch returns when a statement failed and ROLLBACK failed too.
RollbackFailure(path) ==
   IF path = "builders" THEN "TransactionRollbackFailed" ELSE "RollbackError"

\* begin_interruptible_transaction: acquire the writer, BEGIN IMMEDIATE.  BEGIN
\* fails inside an open transaction; `?` returns and the writer is dropped.
ItxBegin ==
   /\ wHolder = "pool"
   /\ IF wInTxn
      THEN UNCHANGED <<wHolder, wInTxn, itxWrites, lastRead>>
      ELSE /\ wHolder' = "itx"
           /\ wInTxn' = TRUE
           /\ itxWrites' = {}
           /\ lastRead' = NoRead
   /\ UNCHANGED <<wPending, wCommitted, nextRow, abandoned, leaked, batch, failedWrites>>

\* One statement of the initial statements or of a continue_with round.  A
\* failed statement ends the round: transaction_continue calls tx.rollback()
\* and the writer is released.
ItxStatement ==
   /\ wHolder = "itx"
   /\ \E ok \in BOOLEAN :
         IF ok
         THEN /\ nextRow <= MaxRows
              /\ wPending' = wPending \cup {nextRow}
              /\ itxWrites' = itxWrites \cup {nextRow}
              /\ nextRow' = nextRow + 1
              /\ UNCHANGED <<wHolder, wInTxn, wCommitted, lastRead>>
         ELSE /\ wCommitted' = AfterRollback(wCommitted, wPending)
              /\ wPending' = {}
              /\ wInTxn' = FALSE
              /\ wHolder' = "pool"
              /\ itxWrites' = {}
              /\ lastRead' = NoRead
              /\ UNCHANGED nextRow
   /\ UNCHANGED <<abandoned, leaked, batch, failedWrites>>

\* transaction_read -> ActiveInterruptibleTransaction::read
ItxRead ==
   /\ wHolder = "itx"
   /\ lastRead' = [valid |-> TRUE, result |-> ReadView, writes |-> itxWrites]
   /\ UNCHANGED <<wHolder, wInTxn, wPending, wCommitted, nextRow, itxWrites, abandoned,
                  leaked, batch, failedWrites>>

\* ActiveInterruptibleTransaction::commit
ItxCommit ==
   /\ wHolder = "itx"
   /\ wCommitted' = AfterCommit(wCommitted, wPending)
   /\ wPending' = {}
   /\ wInTxn' = FALSE
   /\ wHolder' = "pool"
   /\ itxWrites' = {}
   /\ lastRead' = NoRead
   /\ UNCHANGED <<nextRow, abandoned, leaked, batch, failedWrites>>

\* ActiveInterruptibleTransaction::rollback
ItxRollback ==
   /\ wHolder = "itx"
   /\ wCommitted' = AfterRollback(wCommitted, wPending)
   /\ wPending' = {}
   /\ wInTxn' = FALSE
   /\ wHolder' = "pool"
   /\ itxWrites' = {}
   /\ lastRead' = NoRead
   /\ UNCHANGED <<nextRow, abandoned, leaked, batch, failedWrites>>

\* impl Drop for ActiveInterruptibleTransaction with the writer still present:
\* nothing is executed, the WriteGuard returns the connection to the pool.  The
\* connection is not closed; the open transaction is either rolled back when
\* the pool takes the connection back, or it stays open on the idle connection.
ItxDrop ==
   /\ wHolder = "itx"
   /\ wHolder' = "pool"
   /\ abandoned' = abandoned \cup itxWrites
   /\ itxWrites' = {}
   /\ lastRead' = NoRead
   /\ \E rolled \in BOOLEAN :
         IF rolled
         THEN wPending' = {} /\ wInTxn' = FALSE
         ELSE UNCHANGED <<wPending, wInTxn>>
   /\ UNCHANGED <<wCommitted, nextRow, leaked, batch, failedWrites>>

\* DatabaseWrapper::execute: acquire the writer, run one INSERT, release it.
\* In autocommit the row is committed at once; inside an open transaction it
\* joins that transaction.
Execute ==
   /\ wHolder = "pool"
   /\ nextRow <= MaxRows
   /\ leaked' = leaked \cup (View \cap abandoned)
   /\ IF wInTxn
      THEN wPending' = wPending \cup {nextRow} /\ UNCHANGED wCommitted
      ELSE wCommitted' = wCommitted \cup {nextRow} /\ UNCHANGED wPending
   /\ nextRow' = nextRow + 1
   /\ UNCHANGED <<wHolder, wInTxn, itxWrites, lastRead, abandoned, batch, failedWrites>>

\* An atomic batch starts, with or without attached databases: acquire the
\* writer (an AttachedWriteGuard when databases are attached), BEGIN IMMEDIATE
\* (`?` on failure).
BatchBegin ==
   /\ wHolder = "pool"
   /\ \E path \in BatchPaths, att \in BOOLEAN :
         IF wInTxn
         THEN /\ batch' = [BatchDone(path, FALSE, FALSE, "Sqlx") EXCEPT !.attached = att]
              /\ UNCHANGED <<wHolder, wInTxn>>
         ELSE /\ batch' = [NoBatch EXCEPT !.path = path, !.pc = "stmts", !.attached = att]
              /\ wHolder' = "batch"
              /\ wInTxn' = TRUE
   /\ UNCHANGED <<wPending, wCommitted, nextRow, itxWrites, lastRead, abandoned, leaked,
                  failedWrites>>

\* The next statement of the batch.  It inserts a row, or fails and leaves the
\* transaction open, or fails in a way that makes SQLite roll the transaction
\* back itself (INSERT OR ROLLBACK, disk full).
BatchStatement ==
   /\ wHolder = "batch"
   /\ batch.pc = "stmts"
   /\ \E outcome \in {"ok", "failed", "failed_rolled_back"} :
         IF outcome = "ok"
         THEN /\ nextRow <= MaxRows
              /\ wPending' = wPending \cup {nextRow}
              /\ batch' = [batch EXCEPT !.writes = @ \cup {nextRow}]
              /\ nextRow' = nextRow + 1
              /\ UNCHANGED <<wInTxn, wCommitted, failedWrites>>
         ELSE /\ batch' = [batch EXCEPT !.pc = "failed", !.stmtFailed = TRUE]
              /\ failedWrites' = failedWrites \cup batch.writes
              /\ IF outcome = "failed_rolled_back"
                 THEN /\ wCommitted' = AfterRollback(wCommitted, wPending)
                      /\ wPending' = {}
                      /\ wInTxn' = FALSE
                 ELSE UNCHANGED <<wInTxn, wPending, wCommitted>>
              /\ UNCHANGED nextRow
   /\ UNCHANGED <<wHolder, itxWrites, lastRead, abandoned, leaked>>

\* Every statement succeeded: COMMIT, then detach (`?` on its failure),
\* release the writer.
BatchCommit ==
   /\ wHolder = "batch"
   /\ batch.pc = "stmts"
   /\ wCommitted' = AfterCommit(wCommitted, wPending)
   /\ wPending' = {}
   /\ wInTxn' = FALSE
   /\ wHolder' = "pool"
   /\ IF batch.attached
      THEN \E ok \in BOOLEAN :
              batch' = Detached(BatchDone(batch.path, FALSE, FALSE, IF ok THEN "Ok" ELSE "Sqlx"), ok)
      ELSE batch' = BatchDone(batch.path, FALSE, FALSE, "Ok")
   /\ UNCHANGED <<nextRow, itxWrites, lastRead, abandoned, leaked, failedWrites>>

\* A statement failed: ROLLBACK, then release the writer.  ROLLBACK fails when
\* no transaction is open.  The detach is in the Ok arm of the ROLLBACK (after
\* `writer.rollback().await?` in the wrapper); its error is logged and the
\* statement's error is returned.
BatchRollback ==
   /\ wHolder = "batch"
   /\ batch.pc = "failed"
   /\ IF wInTxn
      THEN /\ wCommitted' = AfterRollback(wCommitted, wPending)
           /\ wPending' = {}
           /\ wInTxn' = FALSE
           /\ IF batch.attached
              THEN \E ok \in BOOLEAN :
                      batch' = Detached(BatchDone(batch.path, TRUE, FALSE, "StatementError"), ok)
              ELSE batch' = BatchDone(batch.path, TRUE, FALSE, "StatementError")
      ELSE /\ batch' = BatchDone(batch.path, TRUE, TRUE, RollbackFailure(batch.path))
           /\ UNCHANGED <<wCommitted, wPending, wInTxn>>
   /\ wHolder' = "pool"
   /\ UNCHANGED <<nextRow, itxWrites, lastRead, abandoned, leaked, failedWrites>>

ConnIdle ==
   /\ wHolder = "pool"
   /\ wInTxn = FALSE
   /\ wPending = {}
   /\ wCommitted = {}
   /\ nextRow = 1
   /\ itxWrites = {}
   /\ lastRead = NoRead
   /\ abandoned = {}
   /\ leaked = {}
   /\ batch = NoBatch
   /\ failedWrites = {}

(***************************************************************************)
(* PART 5 - SqliteDatabase::close against acquire_writer and read_pool     *)
(***************************************************************************)

\* The tasks that call acquire_writer and read_pool on one database.
Callers == {"w1", "w2"}

VARIABLES
   db_closed,        \* SqliteDatabase.closed
   db_wal,           \* SqliteDatabase.wal_initialized
   wc_owner,         \* who has the write pool's only connection: "none", a caller, "close"
   wc_pool_closed,   \* write_conn.close() was called
   acq,               \* every caller's acquire_writer call
   rp,               \* every caller's last read_pool call
   close_pc,         \* where close() is
   rdr_out,          \* connections checked out of the read pool
   rpool_closed,     \* read_pool.close() was called
   close_log,        \* the steps close() has performed, in order
   pragma_runs,      \* acquire_writer calls that issued the WAL PRAGMAs
   wal_sets          \* executions of wal_initialized.store(true)

closeVars == <<db_closed, db_wal, wc_owner, wc_pool_closed, acq, rp, close_pc,
               rdr_out, rpool_closed, close_log, pragma_runs, wal_sets>>

closeAux == <<rdr_out, rpool_closed, close_log, pragma_runs, wal_sets>>

\* Bound: connections of the read pool (max_read_connections).
MaxReaders == 2

\* Bound: acquire_writer calls whose WAL PRAGMAs fail.
MaxPragmaFails == 2

\* The PRAGMAs are issued on every acquisition.
NeedsWalInitAlways(flag) == TRUE

\* acquire_writer, line 243: if !self.wal_initialized.load(Ordering::SeqCst)
NeedsWalInit(flag) == ~flag

\* The read pool counts as drained whatever is checked out.
ReadersReturnedAny(n) == TRUE

\* read_pool.close().await returns once every connection has come back.
ReadersReturned(n) == n = 0

\* A call that is not running; `late` tells whether the database was closed
\* when the call returned.
NoCall == [pc |-> "idle", res |-> "none", late |-> FALSE]

\* acquire_writer, line 235: the closed check; then the call waits for the
\* write pool's connection.
AwCheck(t) ==
   /\ acq[t].pc \in {"idle", "done"}
   /\ acq' = [acq EXCEPT ![t] =
                IF db_closed
                THEN [pc |-> "done", res |-> "DatabaseClosed", late |-> TRUE]
                ELSE [pc |-> "waiting", res |-> "none", late |-> FALSE]]
   /\ UNCHANGED <<db_closed, db_wal, wc_owner, wc_pool_closed, rp, close_pc, closeAux>>

\* acquire_writer, lines 240-257: write_conn.acquire() returns.  A closed pool
\* gives sqlx's PoolClosed through `?`; otherwise the caller gets the
\* connection, issues the WAL PRAGMAs if the flag is not set, and returns the
\* WriteGuard.  A PRAGMA that fails returns through `?`: the flag stays as it
\* was and the connection goes back to the pool.
AwAcquire(t) ==
   /\ acq[t].pc = "waiting"
   /\ IF wc_pool_closed
      THEN /\ acq' = [acq EXCEPT ![t] = [pc |-> "done", res |-> "Sqlx", late |-> db_closed]]
           /\ UNCHANGED <<wc_owner, db_wal, pragma_runs, wal_sets>>
      ELSE /\ wc_owner = "none"
           /\ IF NeedsWalInit(db_wal)
              THEN \E ok \in BOOLEAN :
                      /\ pragma_runs' = pragma_runs + 1
                      /\ IF ok
                         THEN /\ db_wal' = TRUE
                              /\ wal_sets' = wal_sets + 1
                              /\ wc_owner' = t
                              /\ acq' = [acq EXCEPT ![t] = [pc |-> "holding", res |-> "Ok",
                                                            late |-> db_closed]]
                         ELSE /\ pragma_runs < MaxPragmaFails
                              /\ acq' = [acq EXCEPT ![t] = [pc |-> "done", res |-> "Sqlx",
                                                            late |-> db_closed]]
                              /\ UNCHANGED <<db_wal, wal_sets, wc_owner>>
              ELSE /\ wc_owner' = t
                   /\ acq' = [acq EXCEPT ![t] = [pc |-> "holding", res |-> "Ok",
                                                 late |-> db_closed]]
                   /\ UNCHANGED <<db_wal, pragma_runs, wal_sets>>
   /\ UNCHANGED <<db_closed, wc_pool_closed, rp, close_pc, rdr_out, rpool_closed, close_log>>

\* The WriteGuard is dropped.
AwRelease(t) ==
   /\ acq[t].pc = "holding"
   /\ wc_owner' = "none"
   /\ acq' = [acq EXCEPT ![t].pc = "done"]
   /\ UNCHANGED <<db_closed, db_wal, wc_pool_closed, rp, close_pc, closeAux>>

\* SqliteDatabase::read_pool
ReadPool(t) ==
   /\ rp' = [rp EXCEPT ![t] = [pc |-> "done",
                               res |-> IF db_closed THEN "DatabaseClosed" ELSE "Ok",
                               late |-> db_closed]]
   /\ rp'[t] # rp[t]
   /\ UNCHANGED <<db_closed, db_wal, wc_owner, wc_pool_closed, acq, close_pc, closeAux>>

\* pool.acquire() on the pool that read_pool handed to caller t: a
\* connection, unless the pool has been closed (PoolClosed) or has none free.
RdrAcquire(t) ==
   /\ rp[t].res = "Ok"
   /\ ~rpool_closed
   /\ rdr_out < MaxReaders
   /\ rdr_out' = rdr_out + 1
   /\ UNCHANGED <<db_closed, db_wal, wc_owner, wc_pool_closed, acq, rp, close_pc,
                  rpool_closed, close_log, pragma_runs, wal_sets>>

\* A reader connection is dropped and goes back to the read pool.
RdrRelease ==
   /\ rdr_out > 0
   /\ rdr_out' = rdr_out - 1
   /\ UNCHANGED <<db_closed, db_wal, wc_owner, wc_pool_closed, acq, rp, close_pc,
                  rpool_closed, close_log, pragma_runs, wal_sets>>

\* close, line 282: self.closed.store(true).
CloseStart ==
   /\ close_pc = "idle"
   /\ db_closed' = TRUE
   /\ close_log' = Append(close_log, "closed")
   /\ close_pc' = "uncache"
   /\ UNCHANGED <<db_wal, wc_owner, wc_pool_closed, acq, rp, rdr_out, rpool_closed,
                  pragma_runs, wal_sets>>

\* close, line 285: uncache_database(&self.path).await.
CloseUncache ==
   /\ close_pc = "uncache"
   /\ close_log' = Append(close_log, "uncache")
   /\ close_pc' = "read_close"
   /\ UNCHANGED <<db_closed, db_wal, wc_owner, wc_pool_closed, acq, rp, rdr_out,
                  rpool_closed, pragma_runs, wal_sets>>

\* close, line 290: read_pool.close() marks the pool closed, so that every
\* later acquire fails.
CloseReadPool ==
   /\ close_pc = "read_close"
   /\ rpool_closed' = TRUE
   /\ close_pc' = "read_draining"
   /\ UNCHANGED <<db_closed, db_wal, wc_owner, wc_pool_closed, acq, rp, rdr_out,
                  close_log, pragma_runs, wal_sets>>

\* close, line 290: .await returns when the readers have come back.
CloseReadPoolDone ==
   /\ close_pc = "read_draining"
   /\ ReadersReturned(rdr_out)
   /\ close_log' = Append(close_log, "read_pool_close")
   /\ close_pc' = "checkpoint"
   /\ UNCHANGED <<db_closed, db_wal, wc_owner, wc_pool_closed, acq, rp, rdr_out,
                  rpool_closed, pragma_runs, wal_sets>>

\* close, lines 294-300: with WAL initialized, acquire the writer and
\* checkpoint; an acquire that fails (the pool's acquire timeout ran out
\* while a guard was held) skips the checkpoint.
CloseCheckpoint ==
   /\ close_pc = "checkpoint"
   /\ IF db_wal
      THEN \/ /\ wc_owner = "none"
              /\ wc_owner' = "close"
              /\ close_log' = Append(close_log, "checkpoint")
           \/ /\ wc_owner # "none"
              /\ UNCHANGED <<wc_owner, close_log>>
      ELSE UNCHANGED <<wc_owner, close_log>>
   /\ close_pc' = "write_close"
   /\ UNCHANGED <<db_closed, db_wal, wc_pool_closed, acq, rp, rdr_out, rpool_closed,
                  pragma_runs, wal_sets>>

\* close, lines 300-302: the checkpoint connection goes back and
\* write_conn.close() marks the pool closed; every pending acquire fails.
CloseWritePool ==
   /\ close_pc = "write_close"
   /\ wc_owner' = IF wc_owner = "close" THEN "none" ELSE wc_owner
   /\ wc_pool_closed' = TRUE
   /\ close_log' = Append(close_log, "write_pool_close")
   /\ close_pc' = "draining"
   /\ UNCHANGED <<db_closed, db_wal, acq, rp, rdr_out, rpool_closed, pragma_runs, wal_sets>>

\* close, lines 302-304: write_conn.close() returns once the connection is back.
CloseReturn ==
   /\ close_pc = "draining"
   /\ wc_owner = "none"
   /\ close_pc' = "done"
   /\ UNCHANGED <<db_closed, db_wal, wc_owner, wc_pool_closed, acq, rp, closeAux>>

CloseIdle ==
   /\ db_closed = FALSE
   /\ db_wal = FALSE
   /\ wc_owner = "none"
   /\ wc_pool_closed = FALSE
   /\ acq = [t \in Callers |-> NoCall]
   /\ rp = [t \in Callers |-> NoCall]
   /\ close_pc = "idle"
   /\ rdr_out = 0
   /\ rpool_closed = FALSE
   /\ close_log = <<>>
   /\ pragma_runs = 0
   /\ wal_sets = 0

(***************************************************************************)
(* PART 6 - the database registry: connect, clone, drop and close on one   *)
(* file path                                                               *)
(***************************************************************************)

\* Bound: how many SqliteDatabase instances are created altogether.
MaxInst == 3

\* Bound: how many strong references (handles) there are at a time.
MaxRefs == 2

Insts == 1..MaxInst

\* The tasks that call SqliteDatabase::connect on the path.
Openers == {"c1", "c2"}

VARIABLES
   reg_entry,     \* the registry's weak reference for the path: 0 or an instance
   refs,          \* every instance's strong count
   inst_closed,   \* every instance's closed flag
   nextInst,      \* the next instance the factory creates
   opens,         \* every opener's connect call
   overlap,       \* the two last connect calls ran at the same time
   disturbed,     \* a close or the last drop happened since those calls began
   closeEver,     \* close was called on some instance
   lastClose      \* the last close call

regVars == <<reg_entry, refs, inst_closed, nextInst, opens, overlap, disturbed, closeEver,
             lastClose>>

\* A connect call: `missed` tells that the lookup found nothing, `other` that
\* the call returned while a strong reference to another instance was held.
NoOpen == [pc |-> "idle", res |-> 0, missed |-> FALSE, other |-> FALSE]

\* A close call: `second` tells that the instance was closed and the path gone
\* when it began, `kept` that it left the registry as it was.
NoClose == [second |-> FALSE, kept |-> TRUE, res |-> "none"]

InFlight(o) == opens[o].pc = "factory"

\* How many handles there are.
TotalRefs(r) ==
   LET S[i \in 0..MaxInst] == IF i = 0 THEN 0 ELSE S[i - 1] + r[i]
   IN S[MaxInst]

\* The instances somebody holds.
Live == {i \in Insts : refs[i] > 0}

\* Weak::upgrade of the registry's entry.
Upgrades(entry, r) == entry # 0 /\ r[entry] > 0

\* An install that does not look at the registry again.
InstallFindsNothing(entry, r) == FALSE

\* get_or_open_database after the factory: the registry is looked at again,
\* and a caller that finds a live entry adopts it.
InstallFinds(entry, r) == Upgrades(entry, r)

\* uncache_database: the path leaves the registry.
Uncache(entry) == 0

\* What uncache_database returns for a path the registry does not hold.
UncacheResults(entry) == IF entry = 0 THEN {"Ok", "Err"} ELSE {"Ok"}

\* A close that returns what uncache_database returned.
CloseResultPropagates(uncached) == uncached

\* close logs an uncache error and returns Ok(()).
CloseResult(uncached) == "Ok"

\* connect -> get_or_open_database: the lookup.  A live entry is returned; a
\* miss runs the factory.
RegLookup(o) ==
   /\ opens[o].pc \in {"idle", "done"}
   /\ overlap' = \E p \in Openers \ {o} : InFlight(p)
   /\ disturbed' = IF \E p \in Openers \ {o} : InFlight(p) THEN disturbed ELSE FALSE
   /\ IF Upgrades(reg_entry, refs)
      THEN /\ TotalRefs(refs) < MaxRefs
           /\ refs' = [refs EXCEPT ![reg_entry] = @ + 1]
           /\ opens' = [opens EXCEPT ![o] =
                           [pc |-> "done", res |-> reg_entry, missed |-> FALSE,
                            other |-> Live \ {reg_entry} # {}]]
      ELSE /\ opens' = [opens EXCEPT ![o] = [NoOpen EXCEPT !.pc = "factory", !.missed = TRUE]]
           /\ UNCHANGED refs
   /\ UNCHANGED <<reg_entry, inst_closed, nextInst, closeEver, lastClose>>

\* The factory of connect (database.rs 124-176) returns.  A failure is not
\* cached.  A new instance is installed unless a live entry appeared meanwhile.
RegInstall(o) ==
   /\ opens[o].pc = "factory"
   /\ \E ok \in BOOLEAN :
         IF ~ok
         THEN /\ opens' = [opens EXCEPT ![o] = [@ EXCEPT !.pc = "done"]]
              /\ UNCHANGED <<reg_entry, refs, nextInst>>
         ELSE IF InstallFinds(reg_entry, refs)
              THEN /\ TotalRefs(refs) < MaxRefs
                   /\ refs' = [refs EXCEPT ![reg_entry] = @ + 1]
                   /\ opens' = [opens EXCEPT ![o] =
                                   [@ EXCEPT !.pc = "done", !.res = reg_entry,
                                              !.other = Live \ {reg_entry} # {}]]
                   /\ UNCHANGED <<reg_entry, nextInst>>
              ELSE /\ nextInst <= MaxInst
                   /\ TotalRefs(refs) < MaxRefs
                   /\ reg_entry' = nextInst
                   /\ refs' = [refs EXCEPT ![nextInst] = 1]
                   /\ nextInst' = nextInst + 1
                   /\ opens' = [opens EXCEPT ![o] =
                                   [@ EXCEPT !.pc = "done", !.res = nextInst, !.other = Live # {}]]
   /\ UNCHANGED <<inst_closed, overlap, disturbed, closeEver, lastClose>>

\* Arc::clone of a handle.
RegClone(i) ==
   /\ refs[i] > 0
   /\ TotalRefs(refs) < MaxRefs
   /\ refs' = [refs EXCEPT ![i] = @ + 1]
   /\ UNCHANGED <<reg_entry, inst_closed, nextInst, opens, overlap, disturbed, closeEver,
                  lastClose>>

\* A handle is dropped; the last one frees the instance and its entry stops
\* upgrading.
RegDrop(i) ==
   /\ refs[i] > 0
   /\ refs' = [refs EXCEPT ![i] = @ - 1]
   /\ disturbed' = (disturbed \/ refs[i] = 1)
   /\ UNCHANGED <<reg_entry, inst_closed, nextInst, opens, overlap, closeEver, lastClose>>

\* SqliteDatabase::close on a handle of instance i: set closed, uncache the
\* path, close the pools, drop the handle.
RegClose(i) ==
   /\ refs[i] > 0
   /\ inst_closed' = [inst_closed EXCEPT ![i] = TRUE]
   /\ reg_entry' = Uncache(reg_entry)
   /\ refs' = [refs EXCEPT ![i] = @ - 1]
   /\ disturbed' = TRUE
   /\ closeEver' = TRUE
   /\ \E u \in UncacheResults(reg_entry) :
         lastClose' = [second |-> inst_closed[i] /\ reg_entry = 0,
                       kept |-> Uncache(reg_entry) = reg_entry, res |-> CloseResult(u)]
   /\ UNCHANGED <<nextInst, opens, overlap>>

RegIdle ==
   /\ reg_entry = 0
   /\ refs = [i \in Insts |-> 0]
   /\ inst_closed = [i \in Insts |-> FALSE]
   /\ nextInst = 1
   /\ opens = [o \in Openers |-> NoOpen]
   /\ overlap = FALSE
   /\ disturbed = FALSE
   /\ closeEver = FALSE
   /\ lastClose = NoClose

(***************************************************************************)
(* PART 7 - the broadcast channel and its two kinds of subscriber          *)
(***************************************************************************)

\* Bound: how many changes are sent on the channel altogether.
MaxSends == 4

\* Bound: the channel's capacity (ObserverConfig.channel_capacity, 256 by default).
ChanCap == 2

\* SqliteObserver::subscribe hands out the broadcast receiver,
\* subscribe_stream wraps it in a TableChangeStream.
SubKinds == {"receiver", "stream"}

VARIABLES
   ch_tail,   \* how many changes change_tx.send has taken
   rx         \* rx[k].next: changes before the subscriber's cursor; rx[k].items: what it got

chanVars == <<ch_tail, rx>>

Change(n) == [kind |-> "change", v |-> n]

Lagged(n) == [kind |-> "lagged", v |-> n]

\* broadcast::Receiver::recv with something to return: a receiver more than
\* the capacity behind gets Lagged(missed) and moves to the oldest change the
\* channel still holds; otherwise it gets the next change.
recv(tail, next) ==
   IF tail - next > ChanCap
   THEN [item |-> Lagged(tail - ChanCap - next), next |-> tail - ChanCap]
   ELSE [item |-> Change(next + 1), next |-> next + 1]

\* TableChangeStream::poll_next: an Err from the receiver is logged and the
\* loop polls again; only changes are returned.
poll_next(tail, next) ==
   LET r == recv(tail, next)
   IN IF r.item.kind = "lagged" THEN recv(tail, r.next) ELSE r

\* How many changes the items account for: one per change, n per Lagged(n).
RECURSIVE Accounted(_)
Accounted(items) ==
   IF items = <<>> THEN 0
   ELSE (IF Head(items).kind = "change" THEN 1 ELSE Head(items).v) + Accounted(Tail(items))

\* ObservationBroker::on_commit sends one change.
ChanSend ==
   /\ ch_tail < MaxSends
   /\ ch_tail' = ch_tail + 1
   /\ UNCHANGED rx

\* The subscriber takes its next item.
ChanReceive(k) ==
   /\ rx[k].next < ch_tail
   /\ LET r == IF k = "stream" THEN poll_next(ch_tail, rx[k].next) ELSE recv(ch_tail, rx[k].next)
      IN rx' = [rx EXCEPT ![k] = [next |-> r.next, items |-> Append(@.items, r.item)]]
   /\ UNCHANGED ch_tail

ChanIdle ==
   /\ ch_tail = 0
   /\ rx = [k \in SubKinds |-> [next |-> 0, items |-> <<>>]]

(***************************************************************************)
(* PART 8 - enabling and disabling observation on the database wrapper     *)
(***************************************************************************)

\* Bound: how many brokers enable_observation creates altogether.
MaxBrokers == 2

\* Bound: how many commits publish a change altogether.
MaxPubs == 2

Brokers == 1..MaxBrokers

VARIABLES observer, ob_next, ob_guard, hook_ctx, ob_retired, ob_chan, ob_sub,
          got_late, ob_pubs

obsVars == <<observer, ob_next, ob_guard, hook_ctx, ob_retired, ob_chan, ob_sub,
             got_late, ob_pubs>>

\* The strong references to broker b: the wrapper's observer field and the
\* HookContext that register_hooks leaked onto the writer connection.
StrongRefs(b) ==
   {r \in {"observer"} : observer = b} \cup {r \in {"hook_ctx"} : hook_ctx = b}

\* disable_observation: self.observer = None.
ObDisable ==
   /\ observer # 0
   /\ ob_retired' = ob_retired \cup {observer}
   /\ observer' = 0
   /\ UNCHANGED <<ob_next, ob_guard, hook_ctx, ob_chan, ob_sub, got_late, ob_pubs>>

\* enable_observation: disable_observation(), then a new observable database
\* with a broker of its own.
ObEnable ==
   /\ ob_next <= MaxBrokers
   /\ ob_retired' = ob_retired \cup ({observer} \ {0})
   /\ observer' = ob_next
   /\ ob_next' = ob_next + 1
   /\ UNCHANGED <<ob_guard, hook_ctx, ob_chan, ob_sub, got_late, ob_pubs>>

\* A subscription taken from the current observer.
ObSubscribe ==
   /\ observer # 0
   /\ ob_sub[observer] = "none"
   /\ ob_sub' = [ob_sub EXCEPT ![observer] = "open"]
   /\ UNCHANGED <<observer, ob_next, ob_guard, hook_ctx, ob_retired, ob_chan,
                  got_late, ob_pubs>>

\* DatabaseWrapper::acquire_writer: with an observer, the observable writer
\* whose hooks own a clone of the observer's broker; without, a regular one.
ObAcquireWriter ==
   /\ ob_guard = "none"
   /\ IF observer # 0
         THEN ob_guard' = "observable" /\ hook_ctx' = observer
         ELSE ob_guard' = "regular" /\ hook_ctx' = 0
   /\ UNCHANGED <<observer, ob_next, ob_retired, ob_chan, ob_sub, got_late, ob_pubs>>

\* A transaction on the guard's connection commits a change to an observed
\* table: the commit hook publishes it on the hook context's broker.
ObCommit ==
   /\ ob_guard = "observable"
   /\ ob_pubs < MaxPubs
   /\ ob_pubs' = ob_pubs + 1
   /\ ob_chan' = [ob_chan EXCEPT ![hook_ctx] = Append(@, hook_ctx \in ob_retired)]
   /\ UNCHANGED <<observer, ob_next, ob_guard, hook_ctx, ob_retired, ob_sub, got_late>>

\* The guard is dropped: unregister_hooks reclaims the HookContext, and with
\* it the hooks' reference to the broker.
ObGuardDrop ==
   /\ ob_guard # "none"
   /\ ob_guard' = "none"
   /\ hook_ctx' = 0
   /\ UNCHANGED <<observer, ob_next, ob_retired, ob_chan, ob_sub, got_late, ob_pubs>>

\* TableChangeStream::poll_next on the subscriber of broker b: the next
\* change, or the end of the stream once every sender is gone.
ObPoll(b) ==
   /\ ob_sub[b] = "open"
   /\ IF ob_chan[b] # <<>>
         THEN /\ ob_chan' = [ob_chan EXCEPT ![b] = Tail(@)]
              /\ got_late' = [got_late EXCEPT ![b] = @ \/ Head(ob_chan[b])]
              /\ UNCHANGED ob_sub
         ELSE /\ StrongRefs(b) = {}
              /\ ob_sub' = [ob_sub EXCEPT ![b] = "closed"]
              /\ UNCHANGED <<ob_chan, got_late>>
   /\ UNCHANGED <<observer, ob_next, ob_guard, hook_ctx, ob_retired, ob_pubs>>

ObsIdle ==
   /\ observer = 0
   /\ ob_next = 1
   /\ ob_guard = "none"
   /\ hook_ctx = 0
   /\ ob_retired = {}
   /\ ob_chan = [b \in Brokers |-> <<>>]
   /\ ob_sub = [b \in Brokers |-> "none"]
   /\ got_late = [b \in Brokers |-> FALSE]
   /\ ob_pubs = 0

(***************************************************************************)
(* PART 9 - attached acquisition on a reader connection                    *)
(***************************************************************************)

VARIABLES rd_call, rd_pc, rd_conn, rd_specs, rd_attached, rd_result

readerVars == <<rd_call, rd_pc, rd_conn, rd_specs, rd_attached, rd_result>>

RECURSIVE InsertSpecByPath(_, _)
\* stable insertion of spec e into a list sorted by the path of the database.
InsertSpecByPath(e, sorted) ==
   IF sorted = <<>> THEN <<e>>
   ELSE IF StrCmp(path_str(e.database), path_str(Head(sorted).database)) < 0
        THEN <<e>> \o sorted
   ELSE <<Head(sorted)>> \o InsertSpecByPath(e, Tail(sorted))

RECURSIVE SortSpecsFrom(_, _)
SortSpecsFrom(specs, acc) ==
   IF specs = <<>> THEN acc
   ELSE SortSpecsFrom(Tail(specs), InsertSpecByPath(Head(specs), acc))

\* specs.sort_by(|a, b| a.database.path_str().cmp(&b.database.path_str()))
SortSpecs(specs) == SortSpecsFrom(specs, <<>>)

\* the HashSet check of the reader: two specs with one path.
HasDuplicateSpecPath(specs) ==
   \E i, j \in 1..Len(specs) :
      i < j /\ path_str(specs[i].database) = path_str(specs[j].database)

\* main_db.read_pool()?.acquire().await?: the first statement of the function.
RdAcquire ==
   /\ rd_pc = "start"
   /\ IF closed[rd_call.main]
         THEN /\ rd_result' = "DatabaseClosed"
              /\ rd_pc' = "done"
              /\ UNCHANGED rd_conn
         ELSE /\ rd_conn' = TRUE
              /\ rd_pc' = "sorting"
              /\ UNCHANGED rd_result
   /\ UNCHANGED <<rd_call, rd_specs, rd_attached>>

\* The sort and the duplicate check; an error return drops the connection.
RdSort ==
   /\ rd_pc = "sorting"
   /\ IF HasDuplicateSpecPath(rd_call.specs)
         THEN /\ rd_result' = "DuplicateAttachedDatabase"
              /\ rd_pc' = "done"
              /\ rd_conn' = FALSE
              /\ UNCHANGED rd_specs
         ELSE /\ rd_specs' = SortSpecs(rd_call.specs)
              /\ rd_pc' = "attaching"
              /\ UNCHANGED <<rd_result, rd_conn>>
   /\ UNCHANGED <<rd_call, rd_attached>>

\* One turn of `for spec in specs`: the name check, the mode check, the ATTACH;
\* after the last turn the AttachedReadConnection is built.
RdSpec ==
   /\ rd_pc = "attaching"
   /\ IF Len(rd_attached) = Len(rd_specs)
         THEN /\ rd_result' = "Ok"
              /\ rd_pc' = "holding"
              /\ UNCHANGED <<rd_conn, rd_attached>>
         ELSE LET spec == rd_specs[Len(rd_attached) + 1]
              IN IF ~is_valid_schema_name(spec.schema_name)
                 THEN /\ rd_result' = "InvalidSchemaName"
                      /\ rd_pc' = "done"
                      /\ rd_conn' = FALSE
                      /\ UNCHANGED rd_attached
                 ELSE IF spec.mode = "ReadWrite"
                 THEN /\ rd_result' = "CannotAttachReadWriteToReader"
                      /\ rd_pc' = "done"
                      /\ rd_conn' = FALSE
                      /\ UNCHANGED rd_attached
                 ELSE \E ok \in BOOLEAN :
                         IF ok
                         THEN /\ rd_attached' = Append(rd_attached, spec.schema_name)
                              /\ UNCHANGED <<rd_result, rd_pc, rd_conn>>
                         ELSE \* the ATTACH statement fails: `?` returns
                              /\ rd_result' = "Sqlx"
                              /\ rd_pc' = "done"
                              /\ rd_conn' = FALSE
                              /\ UNCHANGED rd_attached
   /\ UNCHANGED <<rd_call, rd_specs>>

\* The AttachedReadConnection is dropped, or consumed by detach_all.
RdRelease ==
   /\ rd_pc = "holding"
   /\ rd_pc' = "done"
   /\ rd_conn' = FALSE
   /\ UNCHANGED <<rd_call, rd_specs, rd_attached, rd_result>>

ReaderStart ==
   /\ rd_pc = "start"
   /\ rd_conn = FALSE
   /\ rd_specs = <<>>
   /\ rd_attached = <<>>
   /\ rd_result = "none"

\* No reader call is made.
ReaderIdle ==
   /\ rd_call = [main |-> 1, specs |-> <<>>]
   /\ rd_pc = "done"
   /\ rd_conn = FALSE
   /\ rd_specs = <<>>
   /\ rd_attached = <<>>
   /\ rd_result = "none"

(***************************************************************************)
(* PART 10 - the plugin's execute_transaction and the registry of regular  *)
(* transactions                                                            *)
(***************************************************************************)

\* Bound: how many execute_transaction commands are invoked altogether.
MaxBatches == 2

TxKeys == 1..MaxBatches

VARIABLES
   regular_txs,   \* ActiveRegularTransactions: the keys that map to an abort handle
   commands       \* commands[k]: the execute_transaction command with tx_key k

regularVars == <<regular_txs, commands>>

\* cmd:  "none", "spawned" (task spawned, handle not yet inserted), "awaiting"
\*       (handle.await), "returned"
\* task: "none", "running" (builder.execute()), "removing" (before
\*       regular_txs_clone.remove), "done", "aborted"
\* abort: abort_handle.abort() was called and the task has not seen it yet
NoCommand == [cmd |-> "none", task |-> "none", abort |-> FALSE, res |-> "none"]

\* ActiveRegularTransactions::insert
RegularInsert(handles, key) == handles \cup {key}

\* ActiveRegularTransactions::remove
RegularRemove(handles, key) == handles \ {key}

\* execute_transaction up to tokio::spawn: the task starts running on the runtime.
RtSpawn(k) ==
   /\ commands[k].cmd = "none"
   /\ \A j \in TxKeys : j < k => commands[j].cmd # "none"
   /\ commands' = [commands EXCEPT ![k].cmd = "spawned", ![k].task = "running"]
   /\ UNCHANGED regular_txs

\* regular_txs.insert(tx_key.clone(), handle.abort_handle()).await
RtInsert(k) ==
   /\ commands[k].cmd = "spawned"
   /\ regular_txs' = RegularInsert(regular_txs, k)
   /\ commands' = [commands EXCEPT ![k].cmd = "awaiting"]

\* The spawned task: builder.execute().await returns Ok or Err.
RtTaskExecute(k) ==
   /\ commands[k].task = "running"
   /\ \E r \in {"Ok", "Err"} :
         commands' = [commands EXCEPT ![k].task = "removing", ![k].res = r]
   /\ UNCHANGED regular_txs

\* The spawned task: regular_txs_clone.remove(&tx_key_clone).await, then it
\* completes with the result.
RtTaskRemove(k) ==
   /\ commands[k].task = "removing"
   /\ regular_txs' = RegularRemove(regular_txs, k)
   /\ commands' = [commands EXCEPT ![k].task = "done", ![k].abort = FALSE]

\* The spawned task is cancelled at an await point after abort() was called.
RtTaskCancelled(k) ==
   /\ commands[k].task \in {"running", "removing"}
   /\ commands[k].abort
   /\ commands' = [commands EXCEPT ![k].task = "aborted", ![k].abort = FALSE,
                                   ![k].res = "Aborted"]
   /\ UNCHANGED regular_txs

\* handle.await completes: the task's result, or - for a cancelled task -
\* regular_txs.remove(&tx_key) and the abort error.
RtReturn(k) ==
   /\ commands[k].cmd = "awaiting"
   /\ commands[k].task \in {"done", "aborted"}
   /\ regular_txs' = IF commands[k].task = "aborted" THEN RegularRemove(regular_txs, k)
                                                     ELSE regular_txs
   /\ commands' = [commands EXCEPT ![k].cmd = "returned"]

\* cleanup_all_transactions -> ActiveRegularTransactions::abort_all: abort()
\* on every handle in the map, then txs.clear().
RtAbortAll ==
   /\ regular_txs # {}
   /\ commands' = [k \in TxKeys |->
                     IF k \in regular_txs /\ commands[k].task \in {"running", "removing"}
                     THEN [commands[k] EXCEPT !.abort = TRUE]
                     ELSE commands[k]]
   /\ regular_txs' = {}

RegularIdle ==
   /\ regular_txs = {}
   /\ commands = [k \in TxKeys |-> NoCommand]

(***************************************************************************)
(* PART 11 - load waiting for the migrations of its database               *)
(***************************************************************************)

\* The load calls that wait for the migrations of one database.
Waiters == {"l1", "l2", "l3"}

VARIABLES
   status,         \* MigrationState.status: "Pending", "Running", "Complete", "Failed"
   notify_calls,   \* how many times notify.notify_waiters() has been called
   waiting         \* waiting[w]: where load call w is in await_migrations

migrationVars == <<status, notify_calls, waiting>>

\* pc: "idle", "check" (about to read the status under the read lock),
\*     "cloned" (lock released, notify handle in hand), "notified" (the
\*     Notified future exists and is awaited), "returned"
\* seen: notify_calls when the Notified future was created
NotWaiting == [pc |-> "idle", seen |-> 0, res |-> "none"]

\* MigrationState::update_status: set the status, wake the waiters that are
\* registered now.  notify_waiters stores no permit.
update_status(s) ==
   /\ status' = s
   /\ notify_calls' = notify_calls + 1

\* run_migrations_for_database: the status becomes Running.
MigRunning ==
   /\ status = "Pending"
   /\ update_status("Running")
   /\ UNCHANGED waiting

\* run_migrations_for_database: path resolution, connect or the migrator
\* failed, or the migrations completed.
MigFinish ==
   /\ status = "Running"
   /\ \E s \in {"Complete", "Failed"} : update_status(s)
   /\ UNCHANGED waiting

\* load calls await_migrations.
AwaitStart(w) ==
   /\ waiting[w].pc = "idle"
   /\ waiting' = [waiting EXCEPT ![w].pc = "check"]
   /\ UNCHANGED <<status, notify_calls>>

\* One round of the loop up to the end of the block that holds the read lock:
\* return on Complete or Failed, else clone the notify handle.
AwaitCheck(w) ==
   /\ waiting[w].pc = "check"
   /\ waiting' = [waiting EXCEPT ![w] =
                     IF status = "Complete" THEN [pc |-> "returned", seen |-> 0, res |-> "Ok"]
                     ELSE IF status = "Failed"
                             THEN [pc |-> "returned", seen |-> 0, res |-> "Migration"]
                             ELSE [@ EXCEPT !.pc = "cloned"]]
   /\ UNCHANGED <<status, notify_calls>>

\* notify.notified(): the future is created after the lock was released; it
\* completes on a notify_waiters call made after its creation.
AwaitNotified(w) ==
   /\ waiting[w].pc = "cloned"
   /\ waiting' = [waiting EXCEPT ![w].pc = "notified", ![w].seen = notify_calls]
   /\ UNCHANGED <<status, notify_calls>>

\* The Notified future completes; the loop goes round.
AwaitWake(w) ==
   /\ waiting[w].pc = "notified"
   /\ notify_calls > waiting[w].seen
   /\ waiting' = [waiting EXCEPT ![w].pc = "check", ![w].seen = 0]
   /\ UNCHANGED <<status, notify_calls>>

MigrationIdle ==
   /\ status = "Pending"
   /\ notify_calls = 0
   /\ waiting = [w \in Waiters |-> NotWaiting]

(***************************************************************************)
(* Specifications                                                          *)
(***************************************************************************)
vars == <<poolVars, txVars, brokerVars, connVars, closeVars, regVars, chanVars, obsVars, readerVars, probeVars, regularVars, migrationVars>>

\* What each part leaves alone.
NotPool == <<txVars, brokerVars, connVars, closeVars, regVars, chanVars, obsVars, readerVars, probeVars, regularVars, migrationVars>>

NotTx == <<poolVars, brokerVars, connVars, closeVars, regVars, chanVars, obsVars, readerVars, probeVars, regularVars, migrationVars>>

NotBroker == <<poolVars, txVars, connVars, closeVars, regVars, chanVars, obsVars, readerVars, probeVars, regularVars, migrationVars>>

\* What the observer's acquire with its schema probe leaves alone.
NotBrokerNorProbe == <<poolVars, txVars, connVars, closeVars, regVars, chanVars, obsVars, readerVars, regularVars, migrationVars>>

NotConn == <<poolVars, txVars, brokerVars, closeVars, regVars, chanVars, obsVars, readerVars, probeVars, regularVars, migrationVars>>

NotClose == <<poolVars, txVars, brokerVars, connVars, regVars, chanVars, obsVars, readerVars, probeVars, regularVars, migrationVars>>

NotReg == <<poolVars, txVars, brokerVars, connVars, closeVars, chanVars, obsVars, readerVars, probeVars, regularVars, migrationVars>>

NotChan == <<poolVars, txVars, brokerVars, connVars, closeVars, regVars, obsVars, readerVars, probeVars, regularVars, migrationVars>>

NotObs == <<poolVars, txVars, brokerVars, connVars, closeVars, regVars, chanVars, readerVars, probeVars, regularVars, migrationVars>>

NotReader == <<poolVars, txVars, brokerVars, connVars, closeVars, regVars, chanVars, obsVars, probeVars, regularVars, migrationVars>>

NotProbe == <<poolVars, txVars, brokerVars, connVars, closeVars, regVars, chanVars, obsVars, readerVars, regularVars, migrationVars>>

NotRegular == <<poolVars, txVars, brokerVars, connVars, closeVars, regVars, chanVars, obsVars, readerVars, probeVars, migrationVars>>

NotMigration == <<poolVars, txVars, brokerVars, connVars, closeVars, regVars, chanVars, obsVars, readerVars, probeVars, regularVars>>

PoolIdle ==
   /\ call = [t \in Tasks |-> [main |-> 1, specs |-> <<>>]]
   /\ closed = [d \in DBs |-> FALSE]
   /\ PoolStart

Init == InitPool /\ TxIdle /\ BrokerIdle /\ ConnIdle /\ CloseIdle /\ RegIdle /\ ChanIdle /\ ObsIdle /\ ReaderIdle /\ ProbeIdle /\ RegularIdle /\ MigrationIdle

Spec == Init /\ [][NextPool /\ UNCHANGED NotPool]_vars

InitFair == InitPoolFair /\ TxIdle /\ BrokerIdle /\ ConnIdle /\ CloseIdle /\ RegIdle /\ ChanIdle /\ ObsIdle /\ ReaderIdle /\ ProbeIdle /\ RegularIdle /\ MigrationIdle

\* Every task that can take a step eventually takes it: the runtime polls every
\* ready future, and every guard that was handed out is eventually dropped.
SpecFair ==
   /\ InitFair
   /\ [][NextPool /\ UNCHANGED NotPool]_vars
   /\ \A t \in Tasks : WF_vars(TaskStep(t) /\ UNCHANGED NotPool)

NextTx ==
   \/ \E o \in Ops : TxBegin(o) /\ UNCHANGED NotTx
   \/ \E o \in Ops : TxAcquire(o) /\ UNCHANGED NotTx
   \/ \E o \in Ops : TxInsert(o) /\ UNCHANGED NotTx
   \/ \E o \in Ops : TxInvoke(o) /\ UNCHANGED NotTx
   \/ \E o \in Ops : TxRemove(o) /\ UNCHANGED NotTx
   \/ \E o \in Ops : TxExec(o) /\ UNCHANGED NotTx
   \/ TxAbortAll /\ UNCHANGED NotTx

InitTx == PoolIdle /\ TxIdle /\ BrokerIdle /\ ConnIdle /\ CloseIdle /\ RegIdle /\ ChanIdle /\ ObsIdle /\ ReaderIdle /\ ProbeIdle /\ RegularIdle /\ MigrationIdle

SpecTx == InitTx /\ [][NextTx]_vars

NextBroker ==
   \/ ObsAcquire /\ UNCHANGED NotBroker
   \/ ObsBegin /\ UNCHANGED NotBroker
   \/ ObsExec /\ UNCHANGED NotBroker
   \/ ObsCommit /\ UNCHANGED NotBroker
   \/ ObsRollback /\ UNCHANGED NotBroker
   \/ ObsIntoInner /\ UNCHANGED NotBroker
   \/ ObsDrop /\ UNCHANGED NotBroker
   \/ ObsSubscribe /\ UNCHANGED NotBroker
   \/ StreamNext /\ UNCHANGED NotBroker

InitBroker == PoolIdle /\ TxIdle /\ BrokerIdle /\ ConnIdle /\ CloseIdle /\ RegIdle /\ ChanIdle /\ ObsIdle /\ ReaderIdle /\ ProbeIdle /\ RegularIdle /\ MigrationIdle

SpecBroker == InitBroker /\ [][NextBroker]_vars

\* Acquisitions and releases of the observer's connection, and subscriptions,
\* with the broker's table_info.
NextProbe ==
   \/ ObsAcquireProbed /\ UNCHANGED NotBrokerNorProbe
   \/ ObsIntoInner /\ UNCHANGED NotBroker
   \/ ObsDrop /\ UNCHANGED NotBroker
   \/ ObsSubscribe /\ UNCHANGED NotBroker

InitProbe == InitBroker

SpecProbe == InitProbe /\ [][NextProbe]_vars

NextRegular ==
   \E k \in TxKeys :
      \/ RtSpawn(k) /\ UNCHANGED NotRegular
      \/ RtInsert(k) /\ UNCHANGED NotRegular
      \/ RtTaskExecute(k) /\ UNCHANGED NotRegular
      \/ RtTaskRemove(k) /\ UNCHANGED NotRegular
      \/ RtTaskCancelled(k) /\ UNCHANGED NotRegular
      \/ RtReturn(k) /\ UNCHANGED NotRegular
      \/ RtAbortAll /\ UNCHANGED NotRegular

InitRegular == InitBroker

SpecRegular == InitRegular /\ [][NextRegular]_vars

NextMigration ==
   \/ MigRunning /\ UNCHANGED NotMigration
   \/ MigFinish /\ UNCHANGED NotMigration
   \/ \E w \in Waiters :
         \/ AwaitStart(w) /\ UNCHANGED NotMigration
         \/ AwaitCheck(w) /\ UNCHANGED NotMigration
         \/ AwaitNotified(w) /\ UNCHANGED NotMigration
         \/ AwaitWake(w) /\ UNCHANGED NotMigration

InitMigration == InitBroker

\* The runtime runs every task that can take a step: the migration task and
\* each load call make progress.
SpecMigration ==
   /\ InitMigration
   /\ [][NextMigration]_vars
   /\ WF_vars(MigRunning /\ UNCHANGED NotMigration)
   /\ WF_vars(MigFinish /\ UNCHANGED NotMigration)
   /\ \A w \in Waiters :
         /\ WF_vars(AwaitCheck(w) /\ UNCHANGED NotMigration)
         /\ WF_vars(AwaitNotified(w) /\ UNCHANGED NotMigration)
         /\ WF_vars(AwaitWake(w) /\ UNCHANGED NotMigration)

NextConn ==
   \/ ItxBegin /\ UNCHANGED NotConn
   \/ ItxStatement /\ UNCHANGED NotConn
   \/ ItxRead /\ UNCHANGED NotConn
   \/ ItxCommit /\ UNCHANGED NotConn
   \/ ItxRollback /\ UNCHANGED NotConn
   \/ ItxDrop /\ UNCHANGED NotConn
   \/ Execute /\ UNCHANGED NotConn
   \/ BatchBegin /\ UNCHANGED NotConn
   \/ BatchStatement /\ UNCHANGED NotConn
   \/ BatchCommit /\ UNCHANGED NotConn
   \/ BatchRollback /\ UNCHANGED NotConn

InitConn == PoolIdle /\ TxIdle /\ BrokerIdle /\ ConnIdle /\ CloseIdle /\ RegIdle /\ ChanIdle /\ ObsIdle /\ ReaderIdle /\ ProbeIdle /\ RegularIdle /\ MigrationIdle

SpecConn == InitConn /\ [][NextConn]_vars

NextClose ==
   \/ \E t \in Callers : AwCheck(t) /\ UNCHANGED NotClose
   \/ \E t \in Callers : AwAcquire(t) /\ UNCHANGED NotClose
   \/ \E t \in Callers : AwRelease(t) /\ UNCHANGED NotClose
   \/ \E t \in Callers : ReadPool(t) /\ UNCHANGED NotClose
   \/ \E t \in Callers : RdrAcquire(t) /\ UNCHANGED NotClose
   \/ RdrRelease /\ UNCHANGED NotClose
   \/ CloseStart /\ UNCHANGED NotClose
   \/ CloseUncache /\ UNCHANGED NotClose
   \/ CloseReadPool /\ UNCHANGED NotClose
   \/ CloseReadPoolDone /\ UNCHANGED NotClose
   \/ CloseCheckpoint /\ UNCHANGED NotClose
   \/ CloseWritePool /\ UNCHANGED NotClose
   \/ CloseReturn /\ UNCHANGED NotClose

InitClose == PoolIdle /\ TxIdle /\ BrokerIdle /\ ConnIdle /\ CloseIdle /\ RegIdle /\ ChanIdle /\ ObsIdle /\ ReaderIdle /\ ProbeIdle /\ RegularIdle /\ MigrationIdle

SpecClose == InitClose /\ [][NextClose]_vars

NextReg ==
   \/ \E o \in Openers : RegLookup(o) /\ UNCHANGED NotReg
   \/ \E o \in Openers : RegInstall(o) /\ UNCHANGED NotReg
   \/ \E i \in Insts : RegClone(i) /\ UNCHANGED NotReg
   \/ \E i \in Insts : RegDrop(i) /\ UNCHANGED NotReg
   \/ \E i \in Insts : RegClose(i) /\ UNCHANGED NotReg

InitReg == PoolIdle /\ TxIdle /\ BrokerIdle /\ ConnIdle /\ CloseIdle /\ RegIdle /\ ChanIdle /\ ObsIdle /\ ReaderIdle /\ ProbeIdle /\ RegularIdle /\ MigrationIdle

SpecReg == InitReg /\ [][NextReg]_vars

NextChan ==
   \/ ChanSend /\ UNCHANGED NotChan
   \/ \E k \in SubKinds : ChanReceive(k) /\ UNCHANGED NotChan

InitChan ==
   PoolIdle /\ TxIdle /\ BrokerIdle /\ ConnIdle /\ CloseIdle /\ RegIdle /\ ChanIdle /\ ObsIdle /\ ReaderIdle /\ ProbeIdle /\ RegularIdle /\ MigrationIdle

SpecChan == InitChan /\ [][NextChan]_vars

NextObs ==
   \/ ObEnable /\ UNCHANGED NotObs
   \/ ObDisable /\ UNCHANGED NotObs
   \/ ObSubscribe /\ UNCHANGED NotObs
   \/ ObAcquireWriter /\ UNCHANGED NotObs
   \/ ObCommit /\ UNCHANGED NotObs
   \/ ObGuardDrop /\ UNCHANGED NotObs
   \/ \E b \in Brokers : ObPoll(b) /\ UNCHANGED NotObs

InitObs ==
   PoolIdle /\ TxIdle /\ BrokerIdle /\ ConnIdle /\ CloseIdle /\ RegIdle /\ ChanIdle /\ ObsIdle /\ ReaderIdle /\ ProbeIdle /\ RegularIdle /\ MigrationIdle

SpecObs == InitObs /\ [][NextObs]_vars

\* Either the two writer tasks make their calls, or one reader call is made
\* (any call with up to MaxSpecs specs) next to two writer calls without specs.
InitAttach ==
   \/ InitPool /\ TxIdle /\ BrokerIdle /\ ConnIdle /\ CloseIdle /\ RegIdle /\ ChanIdle
         /\ ObsIdle /\ ReaderIdle /\ ProbeIdle /\ RegularIdle /\ MigrationIdle
   \/ PoolIdle /\ TxIdle /\ BrokerIdle /\ ConnIdle /\ CloseIdle /\ RegIdle /\ ChanIdle
         /\ ObsIdle /\ ProbeIdle /\ RegularIdle /\ MigrationIdle /\ rd_call \in FullCalls /\ ReaderStart

NextAttach ==
   \/ NextPool /\ UNCHANGED NotPool
   \/ RdAcquire /\ UNCHANGED NotReader
   \/ RdSort /\ UNCHANGED NotReader
   \/ RdSpec /\ UNCHANGED NotReader
   \/ RdRelease /\ UNCHANGED NotReader

SpecAttach == InitAttach /\ [][NextAttach]_vars

(***************************************************************************)
(* Claims about the writer pool and attached acquisition                   *)
(***************************************************************************)

\* The live WriteGuards on database d: one per position of a task's all_writers.
LiveGuards(d) ==
   {<<t, i>> \in Tasks \X (1..Len(DbPath)) : i <= Len(all_writers[t]) /\ all_writers[t][i] = d}

\* The set S of a call: the main database and every ReadWrite spec's database.
WriterSet(t) ==
   {call[t].main} \cup {s.database : s \in {x \in Range(call[t].specs) : x.mode = "ReadWrite"}}

\* C1: for every database, at every instant, at most one Write Guard on it is
\* live; a second acquire_writer returns only after the earlier guard is dropped.
C1_AtMostOneWriteGuard == \A d \in DBs : Cardinality(LiveGuards(d)) <= 1

\* C1 witness: a task waits in acquire_writer for a database whose guard
\* another task holds.
C1_Witness ==
   \E t, u \in Tasks :
      /\ t # u
      /\ pc[u] = "acquiring"
      /\ db_entries[u][Len(all_writers[u]) + 1] \in Range(all_writers[t])

\* C2: concurrent acquire_writer_with_attached calls naming the same databases
\* in different roles never deadlock: with every guard eventually dropped,
\* every call eventually returns.
C2_EveryCallReturns == \A t \in Tasks : <>(result[t] # "none")

\* C2 witness: main=A attaching B ReadWrite and main=B attaching A ReadWrite
\* have both returned their guards.
C2_Witness ==
   /\ result["t1"] = "Ok" /\ result["t2"] = "Ok"
   /\ call["t1"].main # call["t2"].main
   /\ call["t2"].main \in WriterSet("t1")
   /\ call["t1"].main \in WriterSet("t2")

C6_CleanupEndsEveryTrackedTx ==
   cleanupDone =>
      \A id \in trackedAtCleanup :
         (\A o \in Ops : ops[o].tx # id) => txs[id].state \in {"committed", "rolledback"}

\* C7: the registry never holds two entries for one db_path, and an insert for
\* a db_path that has an entry returns TransactionAlreadyActive and leaves the
\* registry as it was.
C7_OneEntryPerDbPath ==
   [][/\ \A k \in TxDBs : Cardinality({e \in registry' : e.db_path = k}) <= 1
      /\ \A o \in Ops :
            /\ ops[o].pc \in {"insert", "exec"}
            /\ ops'[o] # ops[o]
            /\ {e \in registry : e.db_path = ops[o].key} # {}
            => /\ registry' = registry
               /\ ops'[o].res \in IF ops[o].pc = "insert" THEN {"TransactionAlreadyActive"}
                                  ELSE {"TransactionAlreadyActive", "Sqlx"}]_vars

C7_Witness ==
   \E o \in Ops :
      /\ ops[o].res = "TransactionAlreadyActive"
      /\ \E k \in TxDBs : Cardinality(EntriesFor(registry, k)) = 1

\* C8: a begin invoked for a db_path while an interruptible transaction on
\* that db_path is active returns TransactionAlreadyActive.
C8_BeginWhileActiveRejected ==
   \A o \in Ops :
      ops[o].whileActive /\ ops[o].pc = "done" => ops[o].res = "TransactionAlreadyActive"

\* C9: remove returns NoActiveTransaction when the registry has no entry for
\* the token's db_path, InvalidTransactionToken when it has one whose
\* transaction id differs from the token's, and goes on (taking the entry out)
\* only when the ids are equal.
C9_RemoveChecksToken ==
   [][\A o \in Ops :
         ops[o].pc = "remove" /\ ops'[o] # ops[o] =>
            LET es == {e \in registry : e.db_path = ops[o].key}
                errors == {"NoActiveTransaction", "InvalidTransactionToken"}
            IN /\ es = {} =>
                     ops'[o].res = "NoActiveTransaction" /\ registry' = registry
               /\ es # {} /\ (\A e \in es : e.transaction_id # ops[o].tok) =>
                     ops'[o].res = "InvalidTransactionToken" /\ registry' = registry
               /\ (\E e \in es : e.transaction_id = ops[o].tok) =>
                     /\ ops'[o].res \notin errors
                     /\ {e \in registry' : e.db_path = ops[o].key} = {}]_vars

C9_Witness ==
   \E o, p \in Ops :
      /\ ops[o].res = "InvalidTransactionToken"
      /\ ops[p].pc = "exec"
      /\ registry # {}

\* C10: once a commit or rollback has removed a token's entry, every later
\* command carrying that token returns NoActiveTransaction or
\* InvalidTransactionToken without executing anything: no transaction changes
\* state, no writer changes hands, the registry stays as it was.
C10_FinalizedTokenIsDead ==
   [][\A o \in Ops :
         ops[o].pc = "remove" /\ <<ops[o].key, ops[o].tok>> \in finalized /\ ops'[o] # ops[o] =>
            /\ ops'[o].pc = "done"
            /\ ops'[o].res \in {"NoActiveTransaction", "InvalidTransactionToken"}
            /\ txs' = txs /\ txWriter' = txWriter /\ registry' = registry]_vars

C10_Witness ==
   \E o, p \in Ops :
      /\ ops[o].stale /\ ops[o].res = "InvalidTransactionToken"
      /\ ops[p].stale /\ ops[p].res = "NoActiveTransaction"

(***************************************************************************)
(* Claims about change publication                                         *)
(***************************************************************************)

\* C4: no TableChange that originates from a rolled-back transaction is ever
\* published.
C4_RolledBackNeverPublished ==
   \A i \in 1..Len(published) : txOutcome[published[i].tx] # "rolledback"

\* C5: for every committed transaction T that ran with the hooks registered
\* from begin to commit, the changes its commit published are exactly T's
\* preupdate events on observed tables, in order: none missing, none from any
\* other transaction.
C5_CommitPublishesExactlyItsOwn ==
   \A T \in Txns :
      txOutcome[T] = "committed" /\ txHooked[T] =>
         LET by_T(c) == c.by = T
         IN SelectSeq(published, by_T)
               = [i \in 1..Len(txExpected[T]) |-> event_to_change(txExpected[T][i], T)]

(***************************************************************************)
(* Claims about transactions and the data                                  *)
(***************************************************************************)

\* C11: a read through an interruptible transaction returns every row the
\* transaction has written so far (initial statements and continue_with
\* rounds), although none of them is committed.
C11_ReadSeesOwnWrites == lastRead.valid => lastRead.writes \subseteq lastRead.result

C11_Witness ==
   /\ lastRead.valid
   /\ Cardinality(lastRead.writes) >= 2
   /\ lastRead.writes \cap wCommitted = {}
   /\ wCommitted # {}

\* C12: when a statement of an atomic batch fails, no row written by that
\* batch is ever committed, and once the batch has released the writer none
\* of them is left in an open transaction: ROLLBACK ran first.
C12_FailedBatchCommitsNothing ==
   \A r \in failedWrites :
      /\ r \notin wCommitted
      /\ r \in wPending => wHolder = "batch" /\ batch.pc = "failed"

C12_Witness ==
   /\ failedWrites # {}
   /\ wHolder = "pool"
   /\ batch.pc = "done" /\ batch.stmtFailed
   /\ wCommitted # {}

\* C13: a batch whose statement failed and whose ROLLBACK failed too returns
\* TransactionRollbackFailed, whichever function ran it.
C13_RollbackFailureReported ==
   batch.pc = "done" /\ batch.stmtFailed /\ batch.rollbackFailed
      => batch.res = "TransactionRollbackFailed"

\* C14: rows written by an interruptible transaction that was dropped while
\* it held its writer are never committed and are never visible to a later
\* user of the writer connection.
C14_DroppedWritesAreGone == abandoned \cap wCommitted = {} /\ leaked = {}

(***************************************************************************)
(* Claims about close and the registry                                     *)
(***************************************************************************)

\* C15: every read_pool or acquire_writer call that returns after the
\* database was closed returns DatabaseClosed, an acquire_writer that was
\* waiting for the connection when close ran included.
C15_ClosedMeansDatabaseClosed ==
   \A t \in Callers :
      /\ acq[t].pc \in {"holding", "done"} /\ acq[t].late => acq[t].res = "DatabaseClosed"
      /\ rp[t].pc = "done" /\ rp[t].late => rp[t].res = "DatabaseClosed"

\* C16: no connect on the path returns while a strong reference to another
\* instance of the path is held: it returns the instance that is held.
C16_SameInstanceWhileHeld ==
   \A o \in Openers : opens[o].pc = "done" /\ opens[o].res # 0 => ~opens[o].other

\* C17: two connect calls on the path that ran at the same time return the
\* same instance, and without a close no two instances of the path are live.
C17_ConcurrentOpensAgree ==
   /\ (/\ \A o \in Openers : opens[o].pc = "done" /\ opens[o].res # 0
       /\ overlap
       /\ ~disturbed)
         => opens["c1"].res = opens["c2"].res
   /\ ~closeEver => Cardinality(Live) <= 1

C17_Witness ==
   /\ \A o \in Openers : opens[o].pc = "done" /\ opens[o].res # 0 /\ opens[o].missed
   /\ overlap
   /\ ~disturbed
   /\ refs[opens["c1"].res] = 2

C19_ReceivedInPublicationOrder ==
   /\ sub_in_order
   /\ \A i, j \in 1..Len(published) :
         i < j => /\ published[i].seq < published[j].seq
                  /\ published[i].tx <= published[j].tx

C19_Witness ==
   /\ sub_next = 3
   /\ Len(published) = 3
   /\ published[1].tx = 1 /\ published[2].tx = 2 /\ published[3].tx = 2
   /\ txOutcome = [T \in Txns |-> "committed"]

\* C20: every change before a subscriber's cursor was either received or
\* reported missed by a Lagged(n) item: n per item adds up to what was lost.
C20_LossIsReported == \A k \in SubKinds : Accounted(rx[k].items) = rx[k].next

(***************************************************************************)
(* C21: once enable_observation has replaced the broker, or                *)
(* disable_observation has dropped it, a subscriber of the previous broker *)
(* receives no change that was published after the replacement: also when  *)
(* a writer guard with hooks registered was live at the time.              *)
(***************************************************************************)
C21_NoChangeAfterReplacement == \A b \in Brokers : ~got_late[b]

(***************************************************************************)
(* C22: no ATTACH DATABASE statement is ever issued with a schema name     *)
(* that fails the pattern [A-Za-z_][A-Za-z0-9_]*, on a writer or on a      *)
(* reader connection; a call with such a spec never succeeds, the writer   *)
(* acquisition returns InvalidSchemaName for it, and so does the reader    *)
(* acquisition when it reaches the spec.                                   *)
(***************************************************************************)
IsIdentStart(c) == c \in (65..90) \cup (97..122) \cup {95}

IsIdentPart(c) == c \in (48..57) \cup (65..90) \cup (97..122) \cup {95}

MatchesIdentifierPattern(name) ==
   /\ Len(name) >= 1
   /\ IsIdentStart(name[1])
   /\ \A i \in 2..Len(name) : IsIdentPart(name[i])

\* '0' '1' '9' 'A' 'Z' 'a' 'z' '_' and the characters around and between them.
SampleChars == {32, 39, 42, 45, 47, 48, 49, 57, 58, 59, 64, 65, 90, 91, 95, 96, 97, 122, 123}

\* "", "1x", "a b", "a-b", "a;b", "a'b", "a/*b*/"
RejectedNames ==
   {<<>>, <<49, 120>>, <<97, 32, 98>>, <<97, 45, 98>>, <<97, 59, 98>>, <<97, 39, 98>>,
    <<97, 47, 42, 98, 42, 47>>}

HasBadName(specs) ==
   \E i \in 1..Len(specs) : ~MatchesIdentifierPattern(specs[i].schema_name)

\* is_valid_schema_name accepts exactly the names of the pattern.
PatternAgrees ==
   /\ \A name \in SeqsUpTo(SampleChars, 2) :
         is_valid_schema_name(name) <=> MatchesIdentifierPattern(name)
   /\ \A name \in RejectedNames : ~is_valid_schema_name(name)

SpecDatabases(specs) == [i \in 1..Len(specs) |-> specs[i].database]

C23_DuplicatePathsRejectedBeforeLocks ==
   \A t \in Tasks :
      /\ pc[t] # "start"
      /\ ~HasBadName(call[t].specs)
      /\ HasDuplicatePath(<<call[t].main>> \o SpecDatabases(call[t].specs))
      => result[t] = "DuplicateAttachedDatabase" /\ all_writers[t] = <<>>

(***************************************************************************)
(* C24: a reader acquisition whose spec list contains a ReadWrite spec     *)
(* fails with CannotAttachReadWriteToReader before any ATTACH statement    *)
(* has been issued on the connection, wherever the ReadWrite spec falls in *)
(* the path-sorted order.                                                  *)
(***************************************************************************)
HasReadWrite(specs) == \E i \in 1..Len(specs) : specs[i].mode = "ReadWrite"

C24_ReadWriteRefusedBeforeAnyAttach ==
   /\ HasReadWrite(rd_call.specs)
   /\ ~HasBadName(rd_call.specs)
   /\ ~HasDuplicateSpecPath(rd_call.specs)
   /\ ~closed[rd_call.main]
   /\ rd_result # "Sqlx"
   => /\ rd_attached = <<>>
      /\ rd_pc = "done" => rd_result = "CannotAttachReadWriteToReader"

(***************************************************************************)
(* C26: in acquire_reader_with_attached and in acquire_writer_with_attached *)
(* a call containing an invalid schema name returns InvalidSchemaName      *)
(* without having acquired any pooled connection or writer lock.           *)
(***************************************************************************)
C26_BadNameTakesNothing ==
   /\ \A t \in Tasks :
         HasBadName(call[t].specs) =>
            /\ all_writers[t] = <<>>
            /\ pc[t] # "start" => result[t] = "InvalidSchemaName"
   /\ HasBadName(rd_call.specs) =>
         /\ ~rd_conn
         /\ rd_pc = "done" => rd_result = "InvalidSchemaName"

(***************************************************************************)
(* C28: acquire_writer_with_attached issues its ATTACH statements on the   *)
(* main writer in the path-sorted order in which the writers were          *)
(* acquired, whatever the order in which the caller listed the specs.      *)
(***************************************************************************)
SchemaNamesOf(specs) == [i \in 1..Len(specs) |-> specs[i].schema_name]

C28_AttachInPathOrder ==
   \A t \in Tasks :
      pc[t] = "holding" => schema_names[t] = SchemaNamesOf(SortSpecs(call[t].specs))

(***************************************************************************)
(* C25: wal_initialized goes from false to true at most once, only inside  *)
(* an acquire_writer call that observed it false while holding the single  *)
(* writer connection; once it is true no acquisition issues the WAL        *)
(* PRAGMAs again.                                                          *)
(***************************************************************************)
C25_WalInitializedOnce ==
   [][/\ wal_sets' <= 1
      /\ db_wal => db_wal' /\ pragma_runs' = pragma_runs /\ wal_sets' = wal_sets
      /\ db_wal' # db_wal =>
            /\ wal_sets' = wal_sets + 1
            /\ pragma_runs' = pragma_runs + 1
            /\ wc_owner = "none"
            /\ wc_owner' \in Callers
      /\ pragma_runs' # pragma_runs => ~db_wal /\ wc_owner = "none"]_vars

\* C25 as stated: the WAL PRAGMAs are never issued by two acquisitions.
C25_PragmasIssuedByOneAcquisition == pragma_runs <= 1

\* The PRAGMAs failed in one acquisition and set the flag in a later one.
C25_Witness ==
   /\ db_wal
   /\ wal_sets = 1
   /\ pragma_runs = 2
   /\ \E t \in Callers : acq[t].pc = "holding"

(***************************************************************************)
(* C29: close performs its steps in this order: set closed, remove the     *)
(* registry entry, wait for the reader connections and close the read      *)
(* pool, then - only if wal_initialized - checkpoint on the writer         *)
(* connection, then close the write pool; no reader connection and no      *)
(* other Write Guard is out while the checkpoint runs.                     *)
(***************************************************************************)
IsPrefix(s, t) == Len(s) <= Len(t) /\ \A i \in 1..Len(s) : s[i] = t[i]

CloseOrder == <<"closed", "uncache", "read_pool_close", "checkpoint", "write_pool_close">>

CloseOrderNoCheckpoint == <<"closed", "uncache", "read_pool_close", "write_pool_close">>

C29_CloseOrder ==
   /\ IsPrefix(close_log, CloseOrder) \/ IsPrefix(close_log, CloseOrderNoCheckpoint)
   /\ close_pc = "done" => Len(close_log) >= Len(CloseOrderNoCheckpoint)
   /\ Len(close_log) >= 3 => rdr_out = 0
   /\ (\E i \in 1..Len(close_log) : close_log[i] = "checkpoint") => db_wal
   /\ wc_owner = "close" =>
         /\ rdr_out = 0
         /\ \A t \in Callers : acq[t].pc # "holding"
         /\ close_log = SubSeq(CloseOrder, 1, 4)

\* The checkpoint runs; a caller had obtained the read pool and another one
\* had held the writer.
C29_Witness ==
   /\ wc_owner = "close"
   /\ \E t \in Callers : rp[t].res = "Ok"
   /\ \E t \in Callers : acq[t].res = "Ok"

(***************************************************************************)
(* C27: from the return of acquire_writer_with_attached until its guard is *)
(* dropped or consumed by detach_all, no other Write Guard can be obtained *)
(* for the main database or for a ReadWrite-attached database: the guard   *)
(* holds the only connection of each of their write pools; when the guard  *)
(* goes, all of them are available again.                                  *)
(***************************************************************************)
C27_GuardHoldsEveryWriter ==
   [][\A t \in Tasks :
         /\ pc[t] = "holding" =>
               \A d \in WriterSet(t) :
                  /\ d \in Range(all_writers[t])
                  /\ write_conn[d] = MaxWriteConns
                  /\ ~PoolHasIdle(d)
                  /\ \A u \in Tasks \ {t} : d \notin Range(all_writers[u])
         /\ pc[t] = "holding" /\ pc'[t] = "done" =>
               \A d \in WriterSet(t) : write_conn'[d] = 0]_vars

\* A task holds a guard with a ReadWrite-attached database while another
\* task waits for that database's writer.
C27_Witness ==
   \E t, u \in Tasks :
      /\ t # u
      /\ pc[t] = "holding"
      /\ pc[u] = "acquiring"
      /\ db_entries[u][Len(all_writers[u]) + 1] \in WriterSet(t) \ {call[t].main}

(***************************************************************************)
(* C30: at process shutdown the transaction cleanup completes before any   *)
(* database close starts, and when a close attempts its WAL checkpoint no  *)
(* transaction holds that database's writer: once the cleanup has run and  *)
(* the commands in flight have returned, no transaction that existed at    *)
(* the cleanup holds a writer.                                             *)
(***************************************************************************)
C30_NoTransactionHoldsWriterAtClose ==
   /\ cleanupDone
   /\ \A o \in Ops : ops[o].pc \in {"idle", "done"}
   => \A d \in TxDBs : txWriter[d] \notin trackedAtCleanup

(***************************************************************************)
(* C31: when a continue_with or read on an interruptible transaction fails *)
(* during execution, the transaction is rolled back and not reinserted:    *)
(* in the step that returns the error the transaction has ended, no        *)
(* database's writer is held by it, and the registry has no entry for it - *)
(* none at all for its db_path when every transaction was begun under its  *)
(* own database's key, as the plugin's begin command does.                 *)
(***************************************************************************)
PluginKeys ==
   /\ \A id \in TxIds : txs[id].state = "active" => txs[id].key = txs[id].db
   /\ \A o \in Ops : ops[o].pc \in {"acquire", "insert"} => ops[o].key = ops[o].db

C31_FailedExecRollsBack ==
   [][\A o \in Ops :
         ops[o].pc = "exec" /\ ops'[o].pc = "done" /\ ops'[o].res = "Sqlx" =>
            LET id == ops[o].tx
            IN /\ txs[id].state = "active" => txs'[id].state = "rolledback"
               /\ txs'[id].state # "active"
               /\ \A d \in TxDBs : txWriter'[d] # id
               /\ \A e \in registry' : e.transaction_id # id
               /\ PluginKeys => EntriesFor(registry', ops[o].key) = {}]_vars

\* A continue has failed on a transaction that was active: the transaction
\* is rolled back, its database's writer is free and its key is vacant.
C31_Witness ==
   \E o, p \in Ops :
      /\ ops[o].pc = "done" /\ ops[o].res = "Sqlx"
      /\ ops[p].pc = "done" /\ ops[p].res = "Ok"
      /\ nextId = 2
      /\ finalized = {}
      /\ ~cleanupDone
      /\ txs[1].state = "rolledback"
      /\ txWriter = [d \in TxDBs |-> 0]
      /\ registry = {}

(***************************************************************************)
(* C32: transitions of an interruptible transaction are serialized: an     *)
(* operation removes the entry, runs on the writer and reinserts it, so a  *)
(* live transaction is at every instant either in the registry or in the   *)
(* hands of exactly one command, and no two continue/read operations for   *)
(* one db_path execute at the same time.                                   *)
(***************************************************************************)
TxHolders(id) == {o \in Ops : ops[o].tx = id /\ ops[o].pc \in {"insert", "exec"}}

C32_OneOperationAtATime ==
   /\ \A id \in TxIds :
         Cardinality(TxHolders(id)) + Cardinality({e \in registry : e.transaction_id = id}) <= 1
   /\ PluginKeys =>
         \A o, p \in Ops :
            o # p /\ ops[o].pc = "exec" /\ ops[p].pc = "exec" => ops[o].key # ops[p].key

\* One command executes on the transaction while another one, carrying the
\* same token, is about to ask the registry for it.
C32_Witness ==
   \E o, p \in Ops :
      /\ ops[o].pc = "exec"
      /\ ops[p].pc = "remove"
      /\ ops[p].key = ops[o].key
      /\ ops[p].tok = ops[o].tx

(***************************************************************************)
(* C33 - A connection that leaves its ObservableConnection, by into_inner  *)
(* or by the drop that returns it to the pool, has its three hooks         *)
(* unregistered first: no pooled or unwrapped connection has hooks         *)
(* registered, and a hook only ever runs (buffers, publishes or clears)    *)
(* while the connection is wrapped and its hook context is in place.       *)
(***************************************************************************)
C33_ReleasedConnectionHasNoHooks ==
   [][/\ conn' # "observable" => ~hooks_registered'
      /\ (buffer' # buffer \/ published' # published) =>
            conn = "observable" /\ hooks_registered]_vars

C33_Witness ==
   /\ conn = "pool"
   /\ ~hooks_registered
   /\ published # <<>>
   /\ inTx # 0
   /\ txWrote[inTx]

(***************************************************************************)
(* C34 - When a statement of an atomic batch with attached databases       *)
(* fails, DETACH is attempted before the batch returns, whether ROLLBACK   *)
(* succeeded or failed, and a failed DETACH leaves the returned error      *)
(* what it was: the statement's error, or the rollback failure.            *)
(***************************************************************************)
C34_DetachAttemptedAfterFailure ==
   batch.pc = "done" /\ batch.stmtFailed /\ batch.attached =>
      /\ batch.detach # "none"
      /\ batch.res = IF batch.rollbackFailed THEN RollbackFailure(batch.path)
                                             ELSE "StatementError"

(***************************************************************************)
(* C35 - Over any sequence of acquisitions from one observer, the schema   *)
(* probe of an observed table runs at most once, also when the first probe *)
(* found no such table or failed.                                          *)
(***************************************************************************)
C35_ProbeAtMostOnce == \A t \in ObsTables : probes[t] <= 1

(***************************************************************************)
(* C36 - Once execute_transaction has returned, with a result, an error or *)
(* the abort error, its key is no longer in the registry of regular        *)
(* transactions, however the spawned task's completion interleaves with    *)
(* the insertion of its abort handle.                                      *)
(***************************************************************************)
C36_ReturnedKeyAbsent ==
   \A k \in TxKeys : commands[k].cmd = "returned" => k \notin regular_txs

(***************************************************************************)
(* C37 - The migration task reaches Complete or Failed, and every load     *)
(* call that entered await_migrations then eventually returns, however the *)
(* status update and its notification interleave with the call's check of  *)
(* the status.                                                             *)
(***************************************************************************)
C37_WaitersEventuallyReturn ==
   \A w \in Waiters : (waiting[w].pc # "idle") ~> (waiting[w].pc = "returned")

(***************************************************************************)
(* C38 - The broker's buffer is empty whenever a transaction begins on the *)
(* connection, and no commit publishes an event that another transaction   *)
(* buffered: events of a transaction that ended without its commit or      *)
(* rollback hook running are not left behind for a later commit.           *)
(***************************************************************************)
C38_BufferEmptyAtBegin ==
   [][/\ inTx = 0 /\ inTx' # 0 => buffer = <<>>
      /\ \A i \in 1..Len(published') : published'[i].by = published'[i].tx]_vars

(***************************************************************************)
(* C39 - A command whose transaction_id does not match the transaction     *)
(* registered for its db_path changes nothing: the registry, the           *)
(* transactions and the writers are what they were, and the registered     *)
(* transaction is still active and still accepts its own token.            *)
(***************************************************************************)
C39_WrongTokenChangesNothing ==
   [][\A o \in Ops :
         ops[o].pc = "remove" /\ ops'[o].res = "InvalidTransactionToken" =>
            /\ registry' = registry
            /\ txs' = txs
            /\ txWriter' = txWriter
            /\ \A e \in EntriesFor(registry', ops[o].key) :
                  /\ e.transaction_id # ops[o].tok
                  /\ txs'[e.transaction_id].state = "active"
                  /\ txWriter'[txs'[e.transaction_id].db] = e.transaction_id
                  /\ TokenMatches(e, e.transaction_id)]_vars

C39_Witness ==
   \E o, p \in Ops :
      /\ ops[o].pc = "done" /\ ops[o].res = "InvalidTransactionToken"
      /\ ops[p].pc = "done" /\ ops[p].res = "Ok"
      /\ nextId = 2
      /\ txs[1].state = "committed"
      /\ registry = {}
      /\ ~cleanupDone

(***************************************************************************)
(* C40 - When acquire_writer_with_attached or acquire_reader_with_attached *)
(* returns an error after one or more of its ATTACH statements succeeded,  *)
(* the connection goes back to its pool with none of the schemas it        *)
(* attached still attached.                                                *)
(***************************************************************************)
C40_ErrorLeavesNothingAttached ==
   [][/\ \A t \in Tasks :
            pc[t] = "attaching" /\ pc'[t] = "done" /\ result'[t] # "Ok" =>
               Range(AttachPrefix(call[t].specs, attached_on[call[t].main]))
                  \cap attached_on'[call[t].main] = {}
      /\ rd_pc = "attaching" /\ rd_pc' = "done" /\ rd_result' # "Ok" =>
            rd_attached' = <<>>]_vars

====
